---- MODULE Spec2Model ----
(***************************************************************************)
(* The scan engine of CasinoCoin Central (src/App.tsx): the paginated      *)
(* trust-line scan loop of startScan, stopScan, the aggregation of         *)
(* processResults, the live-update effect with its 10 s timer, and the     *)
(* metrics refresh.                                                        *)
(*                                                                         *)
(* Execution model.  JavaScript runs every handler and every continuation  *)
(* of an await to completion.  A state setter queues an update; a render   *)
(* applies every queued update in order and then runs the effects whose    *)
(* dependencies changed (React 18 root, automatic batching).  The render   *)
(* of a click follows its handler in the same step; a click whose handler  *)
(* returns at its guard queues nothing and renders nothing.  The updates   *)
(* queued by                                                               *)
(* the continuation of an await, by a timer callback or by an effect are   *)
(* rendered in a later task: until then the buttons and the functions on   *)
(* offer are those of the last render.  The state variables hold the state *)
(* with the queued updates applied, `rendered` the state of the last       *)
(* render.  A function created in a render (startScan, processResults, the *)
(* toggles) reads the state of THAT render: closures are modelled as       *)
(* records of the values they captured.  Refs, timers and the locals of a  *)
(* scan change at once.  isDarkMode and isMetricsLoading only feed the     *)
(* presentation and are left out.                                          *)
(*                                                                         *)
(* Numbers.  A number of the program is a double: NaN, an infinity, a zero *)
(* or a sign with an odd mantissa and a binary exponent.  parseFloat, the  *)
(* division and the multiplication of the percentage round to the nearest  *)
(* double, ties to even, with the subnormals and the overflow to an        *)
(* infinity.  The arithmetic runs on natural numbers of any size kept as   *)
(* limbs, the integers of TLC having 32 bits.  A string is the sequence of *)
(* its UTF-16 code units.                                                  *)
(***************************************************************************)
EXTENDS Integers, Sequences, FiniteSets, TLC

VARIABLES
    holders,            \* useState<Holder[]>            App.tsx:46
    lastUpdated,        \* useState<Date|null>: 0 = null, n = the n-th timestamp
    fetchStatus,        \* useState<FetchStatus>         App.tsx:49
    metrics,            \* useState<TokenMetrics|null>   App.tsx:56
    excludeIssuer,      \* useState<boolean>(true)       App.tsx:58
    isLiveUpdate,       \* useState<boolean>(false)      App.tsx:59
    abortController,    \* abortControllerRef.current    App.tsx:61
    rendered,           \* the state the last render showed and closed over
    timers,             \* the pending setTimeout timers of the live-update effect
    scans,              \* the invocations of startScan that passed its guard
    ledger,             \* the pages fetchTrustlinesBatch serves
    settingsChanges     \* how often excludeIssuer or metrics changed so far

vars == <<holders, lastUpdated, fetchStatus, metrics, excludeIssuer,
          isLiveUpdate, abortController, rendered, timers, scans, ledger,
          settingsChanges>>

----------------------------------------------------------------------------
\* Bounds of the model

\* scans started in one behaviour
MaxScans == 2
\* changes of excludeIssuer and of metrics in one behaviour
MaxChanges == 1
\* records of a generated one-page fixture
MaxRecords == 2
\* the clock of the model advances in steps of this many ms
TickMs == 5000

----------------------------------------------------------------------------
\* Natural numbers of any size, for the arithmetic of doubles: a sequence of
\* limbs below 2^15, the least significant first, without a zero limb at the
\* end (<<>> is 0).  The operators work on all limbs at once, a carry being
\* found by looking down the limbs, so that long numbers need no deep
\* recursion.

Base == 32768

\* the natural number n of the language as limbs
RECURSIVE Limbs(_)
Limbs(n) == IF n = 0 THEN <<>> ELSE <<n % Base>> \o Limbs(n \div Base)

\* how far below limb i the nearest limb other than v lies; i when none does
Reach(s, i, v) ==
    CHOOSE d \in 1..i : /\ d = i \/ s[i - d] # v
                        /\ \A e \in 1..(d - 1) : s[i - e] = v

\* a without the zero limbs at its end
Trim(a) == SubSeq(a, 1, Len(a) + 1 - Reach(a, Len(a) + 1, 0))

\* the carry into limb i of the sum of s[j] * Base^(j-1), no s[j] above
\* 2 * Base - 2: 1 when the nearest limb below i that is not Base - 1 is Base
\* or more
Carry(s, i) ==
    IF i = 1 THEN 0
    ELSE IF s[i - 1] >= Base THEN 1
    ELSE IF s[i - 1] < Base - 1 THEN 0
    ELSE LET d == Reach(s, i, Base - 1)
         IN  IF d < i /\ s[i - d] >= Base THEN 1 ELSE 0

\* the limbs of the sum of s[i] * Base^(i-1)
Propagate(s) ==
    Trim([i \in 1..(Len(s) + 1) |->
            ((IF i > Len(s) THEN 0 ELSE s[i]) + Carry(s, i)) % Base])

\* a * c + carry for c and carry below Base
MulAdd(a, c, carry) ==
    IF a = <<>> THEN Limbs(carry)
    ELSE Propagate([i \in 1..(Len(a) + 1) |->
            (IF i <= Len(a) THEN (a[i] * c) % Base ELSE 0)
                + (IF i = 1 THEN carry ELSE (a[i - 1] * c) \div Base)])

\* a + 1
Increment(a) ==
    IF a # <<>> /\ a[1] < Base - 1 THEN [a EXCEPT ![1] = @ + 1]
    ELSE MulAdd(a, 1, 1)

\* a * c for c below Base
Times(a, c) == MulAdd(a, c, 0)

\* a + b
Plus(a, b) ==
    Propagate([i \in 1..(IF Len(a) > Len(b) THEN Len(a) ELSE Len(b)) |->
                (IF i <= Len(a) THEN a[i] ELSE 0)
                    + (IF i <= Len(b) THEN b[i] ELSE 0)])

\* what limb i lends in the difference of t[j] * Base^(j-1), t[j] being the
\* difference of two limbs: 1 when the nearest limb below i that is not 0 is
\* negative
Borrow(t, i) ==
    IF i = 1 THEN 0
    ELSE IF t[i - 1] < 0 THEN 1
    ELSE IF t[i - 1] > 0 THEN 0
    ELSE LET d == Reach(t, i, 0)
         IN  IF d < i /\ t[i - d] < 0 THEN 1 ELSE 0

\* a - b for a >= b
Minus(a, b) ==
    LET t == [i \in 1..Len(a) |-> a[i] - (IF i <= Len(b) THEN b[i] ELSE 0)]
    IN  Trim([i \in 1..Len(a) |-> (t[i] + Base - Borrow(t, i)) % Base])

\* -1, 0 or 1 as a is less than, equal to or more than b
Compare(a, b) ==
    IF Len(a) < Len(b) THEN 0 - 1
    ELSE IF Len(a) > Len(b) THEN 1
    ELSE IF a = b THEN 0
    ELSE LET t == [i \in 1..(Len(a) + 1) |->
                    IF i > Len(a) THEN 0 ELSE a[i] - b[i]]
             d == Reach(t, Len(a) + 1, 0)
         IN  IF t[Len(a) + 1 - d] < 0 THEN 0 - 1 ELSE 1

\* a * 5^n
RECURSIVE TimesPowerOf5(_, _)
TimesPowerOf5(a, n) ==
    IF a = <<>> \/ n = 0 THEN a
    ELSE IF n <= 6 THEN MulAdd(a, 5^n, 0)
    ELSE TimesPowerOf5(TimesPowerOf5(a, n \div 2), n - (n \div 2))

\* a * 2^n
ShiftLeft(a, n) ==
    IF a = <<>> THEN <<>>
    ELSE [i \in 1..(n \div 15) |-> 0] \o MulAdd(a, 2^(n % 15), 0)

\* a \div 2^n
ShiftRight(a, n) ==
    LET r == SubSeq(a, (n \div 15) + 1, Len(a))
        low == 2^(n % 15)
        high == 2^(15 - (n % 15))
    IN  Trim([i \in 1..Len(r) |->
                (r[i] \div low)
                    + (IF i < Len(r) THEN (r[i + 1] % low) * high ELSE 0)])

\* the number of binary digits of a limb, found by halving the range; and
\* the number of binary digits of a
Bits(n) ==
    IF n < 256
    THEN IF n < 16
         THEN IF n < 4 THEN (IF n < 2 THEN n ELSE 2)
              ELSE IF n < 8 THEN 3 ELSE 4
         ELSE IF n < 64 THEN (IF n < 32 THEN 5 ELSE 6)
              ELSE IF n < 128 THEN 7 ELSE 8
    ELSE IF n < 4096
         THEN IF n < 1024 THEN (IF n < 512 THEN 9 ELSE 10)
              ELSE IF n < 2048 THEN 11 ELSE 12
         ELSE IF n < 16384 THEN (IF n < 8192 THEN 13 ELSE 14)
              ELSE 15

BitLength(a) == IF a = <<>> THEN 0 ELSE 15 * (Len(a) - 1) + Bits(a[Len(a)])

\* the number of zero bits at the low end of a, a not 0
TrailingZeroBits(a) ==
    LET i == CHOOSE i \in 1..Len(a) : a[i] # 0 /\ \A j \in 1..(i - 1) : a[j] = 0
        z == CHOOSE z \in 0..14 : a[i] % 2^z = 0 /\ (a[i] \div 2^z) % 2 = 1
    IN  15 * (i - 1) + z

IsOdd(a) == a # <<>> /\ a[1] % 2 = 1

\* the largest q <= estimate with q * d <= r, and what it leaves of r
RECURSIVE Fit(_, _, _)
Fit(r, d, estimate) ==
    LET product == Times(d, estimate)
    IN  IF Compare(product, r) <= 0
        THEN [quot |-> estimate, rem |-> Minus(r, product)]
        ELSE Fit(r, d, estimate - 1)

\* long division of the limbs i, i - 1, .. 1 of n by d, quot being the
\* quotient of the limbs above i without its lowest limb, and last that limb
\* with the remainder.  A limb of the quotient is 0 when the remainder so far
\* is below d; otherwise it is estimated from the top limbs of the remainder
\* and of d, never too low, and corrected.
RECURSIVE DivModFrom(_, _, _, _, _)
DivModFrom(n, d, i, quot, last) ==
    IF i = 0 THEN [quot |-> Trim(<<last.quot>> \o quot), rem |-> last.rem]
    ELSE LET r == Trim(<<n[i]>> \o last.rem)
             top == d[Len(d)]
             two == IF Len(r) = Len(d) THEN r[Len(r)] \div top
                    ELSE (r[Len(r)] * Base + r[Len(r) - 1]) \div top
         IN  DivModFrom(n, d, i - 1, <<last.quot>> \o quot,
                        IF Compare(r, d) < 0 THEN [quot |-> 0, rem |-> r]
                        ELSE Fit(r, d, IF two < Base THEN two ELSE Base - 1))

\* division of the limbs i, i - 1, .. 1 of n by a d below Base, an integer,
\* quot and rem being quotient and remainder of the limbs above i
RECURSIVE DivModByLimb(_, _, _, _, _)
DivModByLimb(n, d, i, quot, rem) ==
    IF i = 0 THEN [quot |-> Trim(quot), rem |-> Limbs(rem)]
    ELSE DivModByLimb(n, d, i - 1, <<(rem * Base + n[i]) \div d>> \o quot,
                      (rem * Base + n[i]) % d)

\* the estimate q of a limb of the quotient lowered while the two limbs of d
\* show it too high: hi is what the remainder holds over top, the top limb of
\* d; next is the low limb of d and low the limb of n below the remainder
RECURSIVE Refine(_, _, _, _, _)
Refine(q, hi, top, next, low) ==
    IF hi - q * top < Base /\ q * next > (hi - q * top) * Base + low
    THEN Refine(q - 1, hi, top, next, low)
    ELSE q

\* division of the limbs i, i - 1, .. 1 of n by a d from 2^29 up to 2^30, an
\* integer, quot and rem being quotient and remainder of the limbs above i.
\* A limb of the quotient is estimated from the remainder and the top limb
\* of d, never too low, and lowered to the limb it is.
RECURSIVE DivModByPair(_, _, _, _, _)
DivModByPair(n, d, i, quot, rem) ==
    IF i = 0 THEN [quot |-> Trim(quot), rem |-> Limbs(rem)]
    ELSE LET top == d \div Base
             two == rem \div top
             q == Refine(IF two < Base THEN two ELSE Base - 1,
                         rem, top, d % Base, n[i])
         IN  DivModByPair(n, d, i - 1, <<q>> \o quot,
                           (rem - q * top) * Base + n[i] - q * (d % Base))

\* the division r of a dividend and a divisor that were both multiplied by
\* 2^shift, as the division of the two
Unshifted(r, shift) == [quot |-> r.quot, rem |-> ShiftRight(r.rem, shift)]

\* quotient and remainder of n by d, d not 0 and n at most some five limbs
\* longer than d.  A d of one or two limbs is an integer, as is every
\* remainder.  A d of two limbs or more is shifted first, and n with it, so
\* that its top limb is at least Base / 2, which keeps the estimates close.
\* Of a d of three limbs or more the top Len(d) - 1 limbs of n are below d
\* and start as the remainder.
DivMod(n, d) ==
    IF Len(d) = 1 THEN DivModByLimb(n, d[1], Len(n), <<>>, 0)
    ELSE LET shift == 15 - Bits(d[Len(d)])
             nn == ShiftLeft(n, shift)
             dd == ShiftLeft(d, shift)
             first == IF Len(nn) < Len(dd) THEN 0 ELSE Len(nn) - Len(dd) + 1
         IN  Unshifted(IF Len(d) = 2
                       THEN DivModByPair(nn, (d[2] * Base + d[1]) * 2^shift,
                                         Len(nn), <<>>, 0)
                       ELSE DivModFrom(nn, dd, first, <<>>,
                                       [quot |-> 0,
                                        rem |-> SubSeq(nn, first + 1, Len(nn))]),
                       shift)

\* the natural number with the decimal digits ds: up to four digits at once,
\* a longer one as its first half times a power of ten plus its second half
RECURSIVE NatOfDigits(_)
NatOfDigits(ds) ==
    IF Len(ds) <= 4
    THEN Limbs((IF Len(ds) > 3 THEN 1000 * ds[Len(ds) - 3] ELSE 0)
               + (IF Len(ds) > 2 THEN 100 * ds[Len(ds) - 2] ELSE 0)
               + (IF Len(ds) > 1 THEN 10 * ds[Len(ds) - 1] ELSE 0)
               + (IF Len(ds) > 0 THEN ds[Len(ds)] ELSE 0))
    ELSE LET h == Len(ds) \div 2
             low == Len(ds) - h
         IN  Plus(ShiftLeft(TimesPowerOf5(NatOfDigits(SubSeq(ds, 1, h)), low),
                            low),
                  NatOfDigits(SubSeq(ds, h + 1, Len(ds))))

----------------------------------------------------------------------------
\* Numbers.  A JavaScript number is a double: NaN, an infinity, a zero or
\* (-1)^neg * mant * 2^exp with an odd mant below 2^53, exp >= -1074 and a
\* value below 2^1024.  Every double has one such record.

NaN == [nan |-> TRUE, inf |-> FALSE, neg |-> FALSE, mant |-> <<>>, exp |-> 0]

Infinity(neg) ==
    [nan |-> FALSE, inf |-> TRUE, neg |-> neg, mant |-> <<>>, exp |-> 0]

Zero(neg) ==
    [nan |-> FALSE, inf |-> FALSE, neg |-> neg, mant |-> <<>>, exp |-> 0]

\* the record of (-1)^neg * m * 2^q, m not 0
Normal(neg, m, q) ==
    IF IsOdd(m)
    THEN [nan |-> FALSE, inf |-> FALSE, neg |-> neg, mant |-> m, exp |-> q]
    ELSE LET zeros == TrailingZeroBits(m)
         IN  [nan |-> FALSE, inf |-> FALSE, neg |-> neg,
              mant |-> ShiftRight(m, zeros), exp |-> q + zeros]

\* the double (-1)^neg * m * 2^q for an m below 2^54 that is a multiple of
\* 2^(-1074 - q): zero when m is 0, an infinity from 2^1024 on
Rounded(neg, m, q) ==
    IF m = <<>> THEN Zero(neg)
    ELSE IF BitLength(m) + q > 1024 THEN Infinity(neg)
    ELSE Normal(neg, m, q)

\* the double nearest to a value of which division.quot * 2^unit is the whole
\* part and of which something is left when division.rem is not 0 or cut
\* holds.  The quotient has one binary digit more than the double holds, or
\* two; the first digit dropped and whether anything is left below it decide
\* the rounding, to the nearest double and to the even one of two equally
\* near.
RoundQuotient(neg, division, cut, unit) ==
    LET whole == division.quot
        drop == IF BitLength(whole) = 55 THEN 2 ELSE 1
        m0 == ShiftRight(whole, drop)
        half == whole # <<>> /\ (whole[1] \div drop) % 2 = 1
        below == cut \/ division.rem # <<>> \/ (drop = 2 /\ IsOdd(whole))
    IN  Rounded(neg,
                IF half /\ (below \/ IsOdd(m0)) THEN Increment(m0) ELSE m0,
                unit + drop)

\* the double nearest to (-1)^neg * (n / d) * 2^s, d not 0.  The quotient is
\* taken to one binary digit more than the double holds (53 digits, or the
\* multiples of 2^-1074 below 2^-1022) and rounded.  From 2^1024 on the
\* result is an infinity.
RoundRatio(neg, n, d, s) ==
    LET k == BitLength(n) - BitLength(d) + s  \* 2^(k-1) < n/d * 2^s < 2^(k+1)
        unit == IF k - 54 < 0 - 1075 THEN 0 - 1075 ELSE k - 54
        t == s - unit
    IN  IF n = <<>> THEN Zero(neg)
        ELSE IF k > 1025 THEN Infinity(neg)
        ELSE IF k < 0 - 1076 THEN Zero(neg)
        ELSE IF d = <<1>> /\ BitLength(n) <= 53 /\ s >= 0 - 1074
        THEN Rounded(neg, n, s)
        ELSE RoundQuotient(neg,
                           DivMod(IF t >= 0 THEN ShiftLeft(n, t)
                                  ELSE ShiftRight(n, 0 - t), d),
                           t < 0 /\ TrailingZeroBits(n) < 0 - t,
                           unit)

\* ds without the zeros at its start
StripLeadingZeros(ds) ==
    LET n == CHOOSE n \in 0..Len(ds) :
                /\ \A i \in 1..n : ds[i] = 0
                /\ n = Len(ds) \/ ds[n + 1] # 0
    IN  SubSeq(ds, n + 1, Len(ds))

\* the double nearest to (-1)^neg * ds * 10^e, ds being decimal digits; a
\* value of 10^310 or more is beyond every double, one below 10^-324 is
\* nearest to zero
Finite(neg, ds, e) ==
    LET digits == StripLeadingZeros(ds)
        top == Len(digits) + e             \* 10^(top-1) <= value < 10^top
    IN  IF digits = <<>> THEN Zero(neg)
        ELSE IF top > 310 THEN Infinity(neg)
        ELSE IF top < 0 - 324 THEN Zero(neg)
        ELSE RoundRatio(neg,
                        TimesPowerOf5(NatOfDigits(digits), IF e > 0 THEN e ELSE 0),
                        TimesPowerOf5(<<1>>, IF e < 0 THEN 0 - e ELSE 0),
                        e)

\* the number (-1)^neg * m * 2^q, m an integer of the language above 0
RECURSIVE Integer(_, _, _)
Integer(neg, m, q) ==
    IF m % 2 = 0 THEN Integer(neg, m \div 2, q + 1)
    ELSE [nan |-> FALSE, inf |-> FALSE, neg |-> neg, mant |-> Limbs(m),
          exp |-> q]

\* the integer n of the language as a number
Number(n) ==
    IF n = 0 THEN Zero(FALSE)
    ELSE Integer(n < 0, IF n < 0 THEN 0 - n ELSE n, 0)

\* -1, 0, 1: the sign of x (x not NaN; the sign of a zero is 0)
Sign(x) ==
    IF ~x.inf /\ x.mant = <<>> THEN 0 ELSE IF x.neg THEN 0 - 1 ELSE 1

\* |x| < |y| for x, y other than zero and NaN
MagnitudeLess(x, y) ==
    IF x.inf THEN FALSE
    ELSE IF y.inf THEN TRUE
    ELSE LET tx == BitLength(x.mant) + x.exp
             ty == BitLength(y.mant) + y.exp
             low == IF x.exp < y.exp THEN x.exp ELSE y.exp
         IN  tx < ty
             \/ (tx = ty /\ Compare(ShiftLeft(x.mant, x.exp - low),
                                    ShiftLeft(y.mant, y.exp - low)) < 0)

\* x < y; false when one of them is NaN
Less(x, y) ==
    /\ ~x.nan /\ ~y.nan
    /\ LET sx == Sign(x)
           sy == Sign(y)
       IN  IF sx # sy THEN sx < sy
           ELSE IF sx = 0 THEN FALSE
           ELSE MagnitudeLess(IF sx = 1 THEN x ELSE y, IF sx = 1 THEN y ELSE x)

\* x >= y; false when one of them is NaN
AtLeast(x, y) == ~x.nan /\ ~y.nan /\ ~Less(x, y)

\* Math.abs(x)
Abs(x) == [x EXCEPT !.neg = FALSE]

\* a - b < 0 in doubles: a < b, Infinity - Infinity being NaN
DifferenceBelowZero(a, b) == Less(a, b) /\ ~(a.inf /\ b.inf /\ a.neg = b.neg)

\* a - b <= 0 in doubles
DifferenceAtMostZero(a, b) ==
    /\ ~a.nan /\ ~b.nan /\ ~Less(b, a)
    /\ ~(a.inf /\ b.inf /\ a.neg = b.neg)

\* a / b
Quotient(a, b) ==
    LET neg == a.neg # b.neg
    IN  IF a.nan \/ b.nan THEN NaN
        ELSE IF a.inf THEN (IF b.inf THEN NaN ELSE Infinity(neg))
        ELSE IF b.inf THEN Zero(neg)
        ELSE IF b.mant = <<>>
             THEN (IF a.mant = <<>> THEN NaN ELSE Infinity(neg))
        ELSE RoundRatio(neg, a.mant, b.mant, a.exp - b.exp)

\* a * 100
TimesHundred(a) ==
    IF a.nan \/ a.inf THEN a
    ELSE RoundRatio(a.neg, Times(a.mant, 100), <<1>>, a.exp)

----------------------------------------------------------------------------
\* Program constants

ISSUER == "rCSCManTZ8ME9EoLrSHHYKW8PPwWMgkwr"
BITRUE == "raLPjTYeGEzf4yt4lqZz5AmfTDMhfq6F7q"
BITRUE_HOT == "rLNaPoKeeBJZe2nz6oXAG9Jy9it8r912Fk"
UPHOLD == "rMdG3ju8pgyVh29ELPWaDuA74CpWW6Fxns"
GATEHUB == "rhub8VRN55sF4G7xQ1G1dfyE863FdrVk93"
BITTREX == "rPVMhWBsfF9iMXYj3aAzJVkPDTFNSyWdKy"
XUMM == "rNfwFmsgM97YW43d7s1832J8f4i7eG8xG3"

\* 65_000_000_000
FallbackSupply == Finite(FALSE, <<6, 5>>, 9)
\* the setTimeout delay, ms
LiveUpdateDelay == 10000

NoError == "undefined"

\* a cursor is undefined or a string: `marker` before the first page, and the
\* nextMarker of a page
NoCursor == [defined |-> FALSE, value |-> ""]
Cursor(value) == [defined |-> TRUE, value |-> value]
\* the truthiness of a cursor: undefined and the empty string are falsy
Truthy(cursor) == cursor.defined /\ cursor.value # ""

\* metrics === null, and a snapshot with the given totalSupply
NullMetrics == [loaded |-> FALSE, totalSupply |-> Zero(FALSE)]
Snapshot(totalSupply) == [loaded |-> TRUE, totalSupply |-> totalSupply]

KNOWN_WALLETS(account) ==
    CASE account = ISSUER -> [label |-> "Issuer / Foundation", type |-> "team"]
      [] account = BITRUE -> [label |-> "Bitrue", type |-> "cex"]
      [] account = BITRUE_HOT -> [label |-> "Bitrue Hot", type |-> "cex"]
      [] account = UPHOLD -> [label |-> "Uphold", type |-> "cex"]
      [] account = GATEHUB -> [label |-> "GateHub", type |-> "cex"]
      [] account = BITTREX -> [label |-> "Bittrex", type |-> "cex"]
      [] account = XUMM -> [label |-> "Xumm / XRPL Labs", type |-> "cex"]
      [] OTHER -> [label |-> "undefined", type |-> "undefined"]

\* a status message: its text and the count interpolated into it (0 if none)
Msg(text) == [text |-> text, found |-> 0]
MsgScanning(n) == [text |-> "Scanning ledger... found N holders so far", found |-> n]

----------------------------------------------------------------------------
\* Strings.  A string of the ledger is the sequence of its UTF-16 code units.

\* the printable ASCII characters in the order of their codes from 32, the
\* quotation mark and the grave accent by name
Ascii ==
    <<" ", "!", "quote", "#", "$", "%", "&", "'", "(", ")", "*", "+", ",", "-",
      ".", "/", "0", "1", "2", "3", "4", "5", "6", "7", "8", "9", ":", ";",
      "<", "=", ">", "?", "@", "A", "B", "C", "D", "E", "F", "G", "H", "I",
      "J", "K", "L", "M", "N", "O", "P", "Q", "R", "S", "T", "U", "V", "W",
      "X", "Y", "Z", "[", "\\", "]", "^", "_", "backtick", "a", "b", "c", "d", "e",
      "f", "g", "h", "i", "j", "k", "l", "m", "n", "o", "p", "q", "r", "s",
      "t", "u", "v", "w", "x", "y", "z", "{", "|", "}", "~">>

\* the code unit of every ASCII character
AsciiCode ==
    [c \in {Ascii[i] : i \in 1..Len(Ascii)} |->
        31 + CHOOSE i \in 1..Len(Ascii) : Ascii[i] = c]

CodeUnit(c) == AsciiCode[c]

\* the string of the given ASCII characters
Str(chars) == [i \in 1..Len(chars) |-> CodeUnit(chars[i])]

----------------------------------------------------------------------------
\* parseFloat on a string

IsDigit(c) == c \in 48..57
DigitVal(c) == c - 48

\* StrWhiteSpaceChar: TAB, VT, FF, SP, NBSP, ZWNBSP and the space separators
\* U+1680, U+2000..U+200A, U+202F, U+205F, U+3000; the line terminators LF,
\* CR, U+2028, U+2029
WhiteSpace ==
    {9, 11, 12, 32, 160, 65279, 5760, 8239, 8287, 12288, 10, 13, 8232, 8233}
        \cup 8192..8202

\* s without the white space in front
SkipSpaces(s) ==
    LET n == CHOOSE n \in 0..Len(s) :
                /\ \A i \in 1..n : s[i] \in WhiteSpace
                /\ n = Len(s) \/ s[n + 1] \notin WhiteSpace
    IN  SubSeq(s, n + 1, Len(s))

\* the values of the digits s starts with
ReadDigits(s) ==
    LET n == CHOOSE n \in 0..Len(s) :
                /\ \A i \in 1..n : IsDigit(s[i])
                /\ n = Len(s) \/ ~IsDigit(s[n + 1])
    IN  [i \in 1..n |-> DigitVal(s[i])]

\* s without its first n code units
Drop(s, n) == SubSeq(s, n + 1, Len(s))

StartsWith(s, prefix) ==
    Len(s) >= Len(prefix) /\ SubSeq(s, 1, Len(prefix)) = prefix

\* the value of the exponent digits ds: a natural number of any size
ExponentValue(ds) == NatOfDigits(StripLeadingZeros(ds))

\* the ExponentPart s starts with: its sign, the value of its digits and its
\* length (the exponent 0 of length 0 if there is none)
ExponentPart(s) ==
    IF s = <<>> \/ Head(s) \notin {CodeUnit("e"), CodeUnit("E")}
    THEN [negative |-> FALSE, value |-> <<>>, length |-> 0]
    ELSE LET t == Tail(s)
             signed == t # <<>> /\ Head(t) \in {CodeUnit("-"), CodeUnit("+")}
             ds == ReadDigits(IF signed THEN Tail(t) ELSE t)
         IN  IF ds = <<>> THEN [negative |-> FALSE, value |-> <<>>, length |-> 0]
             ELSE [negative |-> signed /\ Head(t) = CodeUnit("-"),
                   value |-> ExponentValue(ds),
                   length |-> 1 + (IF signed THEN 1 ELSE 0) + Len(ds)]

\* the integer of the language with the limbs a, a below 2^31
RECURSIVE NatValue(_)
NatValue(a) == IF a = <<>> THEN 0 ELSE a[1] + Base * NatValue(Tail(a))

\* the double nearest to (-1)^neg * ds * 10^(x - places), x being the
\* exponent of part.  With digits other than zero and an exponent more than
\* 400 above the count of the digits the value is 10^400 or more, or below
\* 10^-400: an infinity or a zero, whatever the digits are.
Scaled(neg, ds, places, part) ==
    IF StripLeadingZeros(ds) = <<>> THEN Zero(neg)
    ELSE IF Compare(part.value, Limbs(Len(ds) + 400)) > 0
    THEN IF part.negative THEN Zero(neg) ELSE Infinity(neg)
    ELSE Finite(neg, ds,
                (IF part.negative THEN 0 - NatValue(part.value)
                 ELSE NatValue(part.value)) - places)

InfinityWord == Str(<<"I", "n", "f", "i", "n", "i", "t", "y">>)

\* the double of the longest StrUnsignedDecimalLiteral that body starts
\* with, with the sign neg: Infinity, or digits with a fraction and an
\* exponent, or a dot with digits and an exponent; NaN when there is none
UnsignedLiteral(neg, body) ==
    LET int == ReadDigits(body)
        rest == Drop(body, Len(int))
        dot == rest # <<>> /\ Head(rest) = CodeUnit(".")
        frac == IF dot THEN ReadDigits(Tail(rest)) ELSE <<>>
        tail == IF dot THEN Drop(rest, 1 + Len(frac)) ELSE rest
    IN  IF StartsWith(body, InfinityWord)
        THEN Infinity(neg)
        ELSE IF int = <<>> /\ frac = <<>> THEN NaN
        ELSE Scaled(neg, int \o frac, Len(frac), ExponentPart(tail))

\* the double of the longest StrDecimalLiteral that s starts with: a sign and
\* a StrUnsignedDecimalLiteral
SignedLiteral(s) ==
    LET signed == s # <<>> /\ Head(s) \in {CodeUnit("-"), CodeUnit("+")}
    IN  UnsignedLiteral(signed /\ Head(s) = CodeUnit("-"),
                        IF signed THEN Tail(s) ELSE s)

\* parseFloat(line.balance): the white space in front is skipped and the
\* longest prefix of the rest that is a StrDecimalLiteral is converted to the
\* nearest double; NaN when there is no such prefix.
ParseFloat(str) == SignedLiteral(SkipSpaces(str))

\* the magnitude of every balance, whatever its sign
HoldingBalanceAnySign(str) ==
    LET rawBalance == ParseFloat(str)
    IN  IF rawBalance.nan THEN Zero(FALSE) ELSE Abs(rawBalance)

\* rawBalance < 0 ? Math.abs(rawBalance) : 0   (a comparison with NaN is false)
Holding(rawBalance) ==
    IF Less(rawBalance, Zero(FALSE)) THEN Abs(rawBalance) ELSE Zero(FALSE)

\* the balance of the entry made from a trust line
HoldingBalance(str) == Holding(ParseFloat(str))

\* .filter(h => h.balance > 0)
RECURSIVE WithPositiveBalance(_)
WithPositiveBalance(hs) ==
    IF hs = <<>> THEN <<>>
    ELSE IF Less(Zero(FALSE), Head(hs).balance)
         THEN <<Head(hs)>> \o WithPositiveBalance(Tail(hs))
         ELSE WithPositiveBalance(Tail(hs))

\* batch.lines.map(...).filter(h => h.balance > 0)
HoldersBatch(lines) ==
    WithPositiveBalance(
        [k \in 1..Len(lines) |->
            [account |-> lines[k].account,
             balance |-> HoldingBalance(lines[k].balance)]])

----------------------------------------------------------------------------
\* processResults: sort, issuer filter, rank, percentage, tier

\* x placed before the elements of equal balance
RECURSIVE InsertDescUnstable(_, _)
InsertDescUnstable(x, sorted) ==
    IF sorted = <<>> THEN <<x>>
    ELSE IF DifferenceAtMostZero(Head(sorted).balance, x.balance)
         THEN <<x>> \o sorted
         ELSE <<Head(sorted)>> \o InsertDescUnstable(x, Tail(sorted))

\* x placed behind every element that does not compare after it
RECURSIVE InsertDesc(_, _)
InsertDesc(x, sorted) ==
    IF sorted = <<>> THEN <<x>>
    ELSE IF DifferenceBelowZero(Head(sorted).balance, x.balance)
         THEN <<x>> \o sorted
         ELSE <<Head(sorted)>> \o InsertDesc(x, Tail(sorted))

\* rawHolders.sort((a, b) => b.balance - a.balance): Array.prototype.sort is stable
RECURSIVE SortDescFrom(_, _)
SortDescFrom(rest, sorted) ==
    IF rest = <<>> THEN sorted
    ELSE SortDescFrom(Tail(rest), InsertDesc(Head(rest), sorted))

SortDesc(rawHolders) == SortDescFrom(rawHolders, <<>>)

\* sorted.filter(h => h.account !== ISSUER)
RECURSIVE WithoutIssuer(_)
WithoutIssuer(sorted) ==
    IF sorted = <<>> THEN <<>>
    ELSE IF Head(sorted).account # ISSUER
         THEN <<Head(sorted)>> \o WithoutIssuer(Tail(sorted))
         ELSE WithoutIssuer(Tail(sorted))

\* metrics?.totalSupply || 65_000_000_000: null, 0 and NaN are falsy
SupplyBasis(m) ==
    IF ~m.loaded \/ m.totalSupply.nan \/ Sign(m.totalSupply) = 0
    THEN FallbackSupply
    ELSE m.totalSupply

\* (h.balance / supplyBasis) * 100: the quotient is rounded to a double, and
\* so is its product with 100
Percentage(balance, supplyBasis) == TimesHundred(Quotient(balance, supplyBasis))

\* the minimum balance of every tier above Microbe
TierMinimum ==
    [Kraken |-> Number(1000000000),
     Megalodon |-> Number(500000000),
     SpermWhale |-> Number(250000000),
     Whale |-> Number(100000000),
     Orca |-> Number(50000000),
     Shark |-> Number(25000000),
     Dolphin |-> Number(10000000),
     Swordfish |-> Number(5000000),
     Turtle |-> Number(1000000),
     Octopus |-> Number(500000),
     Crab |-> Number(100000),
     Shrimp |-> Number(50000),
     Plankton |-> Number(10000)]

\* the ladder with an exclusive bound for one tier
TierExclusiveBound(balance) ==
    IF AtLeast(balance, TierMinimum.Kraken) THEN "Kraken"
    ELSE IF AtLeast(balance, TierMinimum.Megalodon) THEN "Megalodon"
    ELSE IF AtLeast(balance, TierMinimum.SpermWhale) THEN "Sperm Whale"
    ELSE IF AtLeast(balance, TierMinimum.Whale) THEN "Whale"
    ELSE IF AtLeast(balance, TierMinimum.Orca) THEN "Orca"
    ELSE IF AtLeast(balance, TierMinimum.Shark) THEN "Shark"
    ELSE IF AtLeast(balance, TierMinimum.Dolphin) THEN "Dolphin"
    ELSE IF AtLeast(balance, TierMinimum.Swordfish) THEN "Swordfish"
    ELSE IF Less(TierMinimum.Turtle, balance) THEN "Turtle"
    ELSE IF AtLeast(balance, TierMinimum.Octopus) THEN "Octopus"
    ELSE IF AtLeast(balance, TierMinimum.Crab) THEN "Crab"
    ELSE IF AtLeast(balance, TierMinimum.Shrimp) THEN "Shrimp"
    ELSE IF AtLeast(balance, TierMinimum.Plankton) THEN "Plankton"
    ELSE "Microbe"

Tier(balance) ==
    IF AtLeast(balance, TierMinimum.Kraken) THEN "Kraken"
    ELSE IF AtLeast(balance, TierMinimum.Megalodon) THEN "Megalodon"
    ELSE IF AtLeast(balance, TierMinimum.SpermWhale) THEN "Sperm Whale"
    ELSE IF AtLeast(balance, TierMinimum.Whale) THEN "Whale"
    ELSE IF AtLeast(balance, TierMinimum.Orca) THEN "Orca"
    ELSE IF AtLeast(balance, TierMinimum.Shark) THEN "Shark"
    ELSE IF AtLeast(balance, TierMinimum.Dolphin) THEN "Dolphin"
    ELSE IF AtLeast(balance, TierMinimum.Swordfish) THEN "Swordfish"
    ELSE IF AtLeast(balance, TierMinimum.Turtle) THEN "Turtle"
    ELSE IF AtLeast(balance, TierMinimum.Octopus) THEN "Octopus"
    ELSE IF AtLeast(balance, TierMinimum.Crab) THEN "Crab"
    ELSE IF AtLeast(balance, TierMinimum.Shrimp) THEN "Shrimp"
    ELSE IF AtLeast(balance, TierMinimum.Plankton) THEN "Plankton"
    ELSE "Microbe"

\* the Holder built from the entry at position index (0-based) of sorted
MakeHolder(h, index, supplyBasis) ==
    [rank |-> index + 1,
     account |-> h.account,
     balance |-> h.balance,
     percentage |-> Percentage(h.balance, supplyBasis),
     tier |-> Tier(h.balance),
     walletLabel |-> KNOWN_WALLETS(h.account).label,
     walletType |-> KNOWN_WALLETS(h.account).type]

\* the list processResults hands to setHolders
Processed(rawHolders, exclude, m) ==
    LET sorted0 == SortDesc(rawHolders)
        sorted == IF exclude THEN WithoutIssuer(sorted0) ELSE sorted0
    IN  [i \in 1..Len(sorted) |-> MakeHolder(sorted[i], i - 1, SupplyBasis(m))]

----------------------------------------------------------------------------
\* The component state as one record, and the closure of a render

Cur ==
    [holders |-> holders, lastUpdated |-> lastUpdated, fetchStatus |-> fetchStatus,
     metrics |-> metrics, excludeIssuer |-> excludeIssuer,
     isLiveUpdate |-> isLiveUpdate, abortController |-> abortController,
     timers |-> timers, scans |-> scans]

\* the useState values of S: what a render of S shows
View(S) ==
    [holders |-> S.holders, lastUpdated |-> S.lastUpdated,
     fetchStatus |-> S.fetchStatus, metrics |-> S.metrics,
     excludeIssuer |-> S.excludeIssuer, isLiveUpdate |-> S.isLiveUpdate]

\* the useState values as they are, every queued update applied
Shown ==
    [holders |-> holders, lastUpdated |-> lastUpdated,
     fetchStatus |-> fetchStatus, metrics |-> metrics,
     excludeIssuer |-> excludeIssuer, isLiveUpdate |-> isLiveUpdate]

\* what the functions created in the render of view V read of it
Closure(V) ==
    [fetchStatus |-> V.fetchStatus, holdersLength |-> Len(V.holders),
     excludeIssuer |-> V.excludeIssuer, metrics |-> V.metrics,
     isLiveUpdate |-> V.isLiveUpdate]

InitialFetchStatus ==
    [isFetching |-> FALSE, linesFetched |-> 0, statusMessage |-> Msg(""),
     complete |-> FALSE, error |-> NoError]

NoTimeout ==
    [pending |-> FALSE, remaining |-> 0,
     startScan |-> [fetchStatus |-> InitialFetchStatus, holdersLength |-> 0,
                    excludeIssuer |-> TRUE, metrics |-> NullMetrics,
                    isLiveUpdate |-> FALSE]]

\* A pending timer: the time left to its callback, the startScan its callback
\* calls, and whether the variable `timeout` of the last run of the effect
\* holds it.  timers lists the pending timers in the order they were armed.
Timer(cl) == [remaining |-> LiveUpdateDelay, startScan |-> cl, held |-> TRUE]

\* ts without its k-th timer
WithoutTimer(ts, k) == SubSeq(ts, 1, k - 1) \o SubSeq(ts, k + 1, Len(ts))

\* ts without the timers the last run of the effect holds: clearTimeout(timeout)
RECURSIVE Cleared(_)
Cleared(ts) ==
    IF ts = <<>> THEN <<>>
    ELSE IF Head(ts).held THEN Cleared(Tail(ts))
    ELSE <<Head(ts)>> \o Cleared(Tail(ts))

\* ts with a timer for the startScan of closure cl, which the variable
\* `timeout` of the run that arms it holds from now on
Armed(ts, cl) ==
    [k \in 1..Len(ts) |-> [ts[k] EXCEPT !.held = FALSE]] \o <<Timer(cl)>>

\* the timer the variable `timeout` of the last run of the effect holds
timeout ==
    IF \E k \in 1..Len(timers) : timers[k].held
    THEN LET held == timers[CHOOSE k \in 1..Len(timers) : timers[k].held]
         IN  [pending |-> TRUE, remaining |-> held.remaining,
              startScan |-> held.startScan]
    ELSE NoTimeout

\* abortControllerRef.current: id 0 is null, id n the n-th AbortController
NoController == [id |-> 0, aborted |-> FALSE]

\* An invocation of startScan suspended in "await fetchTrustlinesBatch(marker)".
\* requested and stopped record its history.
NewScan(cl) ==
    [pc |-> "fetching",
     isBackgroundUpdate |-> cl.holdersLength > 0,
     excludeIssuer |-> cl.excludeIssuer,
     metrics |-> cl.metrics,
     marker |-> NoCursor,
     allLines |-> <<>>,
     requested |-> <<NoCursor>>,
     stopped |-> FALSE]

\* startScan up to its first await, called from the render whose closure is cl
startScan(cl, S) ==
    IF cl.fetchStatus.isFetching THEN S
    ELSE LET isBackgroundUpdate == cl.holdersLength > 0
         IN  [S EXCEPT
                !.fetchStatus =
                    [isFetching |-> TRUE,
                     linesFetched |-> 0,
                     statusMessage |->
                        IF isBackgroundUpdate THEN cl.fetchStatus.statusMessage
                        ELSE Msg("Initializing connection to XRPL..."),
                     complete |-> FALSE,
                     error |-> NoError],
                !.abortController = [id |-> @.id + 1, aborted |-> FALSE],
                !.scans = Append(@, NewScan(cl))]

\* an invocation of startScan that has returned
Ended ==
    [pc |-> "done", isBackgroundUpdate |-> FALSE, excludeIssuer |-> FALSE,
     metrics |-> NullMetrics, marker |-> NoCursor, allLines |-> <<>>,
     requested |-> <<>>, stopped |-> FALSE]

\* the catch block of startScan, ending scan i
catch(S, i, message) ==
    [S EXCEPT
        !.fetchStatus = [@ EXCEPT !.isFetching = FALSE,
                                  !.statusMessage = Msg("Error during scan."),
                                  !.error = message],
        !.isLiveUpdate = FALSE,
        !.scans[i] = Ended]

\* setHolders(processed), setLastUpdated(new Date()) and the setFetchStatus
\* of the completed scan i
Published(S, i, processed) ==
    [S EXCEPT
        !.holders = processed,
        !.lastUpdated = @ + 1,
        !.fetchStatus = [isFetching |-> FALSE,
                         linesFetched |-> Len(processed),
                         statusMessage |-> Msg("Scan complete."),
                         complete |-> TRUE,
                         error |-> NoError],
        !.scans[i] = Ended]

\* processResults of the render that started scan i
processResults(S, i, rawHolders) ==
    Published(IF ~S.scans[i].isBackgroundUpdate
              THEN [S EXCEPT !.fetchStatus.statusMessage =
                                Msg("Processing rich list data...")]
              ELSE S,
              i,
              Processed(rawHolders, S.scans[i].excludeIssuer,
                        S.scans[i].metrics))

\* the setFetchStatus of the progress report
Progress(S, i, count) ==
    IF ~S.scans[i].isBackgroundUpdate
    THEN [S EXCEPT !.fetchStatus = [@ EXCEPT !.linesFetched = count,
                                             !.statusMessage = MsgScanning(count)]]
    ELSE S

\* scanLoop handing every page to processResults as it arrives
scanLoopPublishingPages(S, i, batch) ==
    LET sc == S.scans[i]
        allLines == sc.allLines \o HoldersBatch(batch.lines)
        S1 == Progress(S, i, Len(allLines))
        S2 == [S1 EXCEPT !.holders =
                  Processed(allLines, sc.excludeIssuer, sc.metrics)]
    IN  IF Truthy(batch.nextMarker)
        THEN IF S2.abortController.aborted
             THEN catch(S2, i, "Scan aborted by user")
             ELSE [S2 EXCEPT !.scans[i] =
                     [@ EXCEPT !.marker = batch.nextMarker,
                               !.allLines = allLines,
                               !.requested = Append(@, batch.nextMarker)]]
        ELSE processResults(S2, i, allLines)

\* the body of the loop behind "allLines = [...allLines, ...holdersBatch]",
\* to the next await or to the end of startScan
Accumulated(S, i, nextMarker, allLines) ==
    LET S1 == Progress(S, i, Len(allLines))
    IN  IF Truthy(nextMarker)
        THEN IF S1.abortController.aborted
             THEN catch(S1, i, "Scan aborted by user")
             ELSE [S1 EXCEPT !.scans[i] =
                     [@ EXCEPT !.marker = nextMarker,
                               !.allLines = allLines,
                               !.requested = Append(@, nextMarker)]]
        ELSE processResults(S1, i, allLines)

\* startScan from the resolution of "await fetchTrustlinesBatch(marker)" with
\* batch to its next await or its end
scanLoop(S, i, batch) ==
    Accumulated(S, i, batch.nextMarker,
                S.scans[i].allLines \o HoldersBatch(batch.lines))

StopMark(sc) == IF sc.pc = "fetching" THEN [sc EXCEPT !.stopped = TRUE] ELSE sc

stopScan(S) ==
    IF S.abortController.id # 0
    THEN [S EXCEPT
            !.abortController.aborted = TRUE,
            !.fetchStatus = [@ EXCEPT !.isFetching = FALSE,
                                      !.statusMessage = Msg("Scan stopped by user."),
                                      !.complete = FALSE],
            !.isLiveUpdate = FALSE,
            !.scans = [k \in 1..Len(@) |-> StopMark(@[k])]]
    ELSE S

\* toggleExcludeIssuer that also starts a scan with the new setting
toggleExcludeIssuerRescanning(cl, S) ==
    LET S1 == [S EXCEPT !.excludeIssuer = ~cl.excludeIssuer]
    IN  startScan([cl EXCEPT !.excludeIssuer = ~cl.excludeIssuer], S1)

\* setExcludeIssuer(!excludeIssuer), called from the render whose closure is cl
toggleExcludeIssuer(cl, S) == [S EXCEPT !.excludeIssuer = ~cl.excludeIssuer]

\* setIsLiveUpdate(!isLiveUpdate), called from the render whose closure is cl
toggleLiveUpdate(cl, S) == [S EXCEPT !.isLiveUpdate = ~cl.isLiveUpdate]

\* loadMetrics from the resolution of "await fetchTokenMetrics()" with data
loadMetrics(S, data) == [S EXCEPT !.metrics = data]

----------------------------------------------------------------------------
\* The live-update effect

\* the dependency array of the effect in the render of view V
Deps(V) ==
    <<V.isLiveUpdate, V.fetchStatus.isFetching, V.fetchStatus.complete,
      Len(V.holders)>>

\* the body of the effect without the cleanup of the previous run
liveUpdateEffectKeepingTimer(S) ==
    IF S.isLiveUpdate /\ ~S.fetchStatus.isFetching
    THEN IF S.fetchStatus.complete
         THEN [S EXCEPT !.timers = Armed(@, Closure(View(S)))]
         ELSE IF Len(S.holders) = 0
              THEN startScan(Closure(View(S)), S)
              ELSE S
    ELSE S

\* the effect arming the timer also where it has to start at once
liveUpdateEffectAlwaysDelayed(S) ==
    LET S0 == [S EXCEPT !.timers = Cleared(@)]
    IN  IF S.isLiveUpdate /\ ~S.fetchStatus.isFetching
        THEN IF S.fetchStatus.complete \/ Len(S.holders) = 0
             THEN [S0 EXCEPT !.timers = Armed(@, Closure(View(S)))]
             ELSE S0
        ELSE S0

\* the cleanup of the previous run (clearTimeout) and the body of the effect,
\* in the render of S
liveUpdateEffect(S) ==
    LET S0 == [S EXCEPT !.timers = Cleared(@)]
    IN  IF S.isLiveUpdate /\ ~S.fetchStatus.isFetching
        THEN IF S.fetchStatus.complete
             THEN [S0 EXCEPT !.timers = Armed(@, Closure(View(S)))]
             ELSE IF Len(S.holders) = 0
                  THEN startScan(Closure(View(S)), S0)
                  ELSE S0
        ELSE S0

\* The render of S after the render of view old: the effect runs when one of
\* its dependencies changed.  What its startScan queues waits for a render.
Render(old, S) ==
    IF Deps(View(S)) = Deps(old) THEN S ELSE liveUpdateEffect(S)

\* the step to state S with V as the last render, in a behaviour of at most
\* maxScans scans
Step(S, V, maxScans) ==
    /\ Len(S.scans) = Len(scans) \/ Len(S.scans) <= maxScans
    /\ holders' = S.holders
    /\ lastUpdated' = S.lastUpdated
    /\ fetchStatus' = S.fetchStatus
    /\ metrics' = S.metrics
    /\ excludeIssuer' = S.excludeIssuer
    /\ isLiveUpdate' = S.isLiveUpdate
    /\ abortController' = S.abortController
    /\ rendered' = V
    /\ timers' = S.timers
    /\ scans' = S.scans
    /\ ledger' = ledger
    /\ settingsChanges' =
          IF S.excludeIssuer # excludeIssuer \/ S.metrics # metrics
          THEN settingsChanges + 1 ELSE settingsChanges
    /\ settingsChanges' <= MaxChanges

\* a continuation or a timer callback has run to S: its updates are queued
Queue(S) == Step(S, rendered, MaxScans)

\* a render of S, every queued update applied, and the effect
CommitUpTo(S, maxScans) == Step(Render(rendered, S), View(S), maxScans)

Commit(S) == CommitUpTo(S, MaxScans)

----------------------------------------------------------------------------
\* Fixtures: what fetchTrustlinesBatch serves for each cursor

Line(account, balance) == [account |-> account, balance |-> balance]
Page(lines, nextMarker) == [lines |-> lines, nextMarker |-> nextMarker]

\* two pages; page 1 = [{A,-500},{B,300}], page 2 = [{C,-100}]
LedgerTwoPages ==
    [c \in {NoCursor, Cursor("m1")} |->
        IF c = NoCursor
        THEN Page(<<Line("A", Str(<<"-", "5", "0", "0">>)), Line("B", Str(<<"3", "0", "0">>))>>,
                  Cursor("m1"))
        ELSE Page(<<Line("C", Str(<<"-", "1", "0", "0">>))>>, NoCursor)]

\* three pages whose cursors are not in page order; a tie, the issuer and an
\* unparseable balance
LedgerThreePages ==
    [c \in {NoCursor, Cursor("m1"), Cursor("m2")} |->
        CASE c = NoCursor ->
                Page(<<Line(ISSUER, Str(<<"-", "9", "0", "0">>))>>, Cursor("m2"))
          [] c = Cursor("m2") ->
                Page(<<Line("A", Str(<<"-", "5", "0", "0">>)), Line("B", Str(<<"a", "b", "c">>))>>,
                     Cursor("m1"))
          [] OTHER -> Page(<<Line("C", Str(<<"-", "5", "0", "0">>))>>, NoCursor)]

\* two pages with the issuer, a tie and an unparseable balance
LedgerWithIssuer ==
    [c \in {NoCursor, Cursor("m1")} |->
        IF c = NoCursor
        THEN Page(<<Line("A", Str(<<"-", "5", "0", "0">>)), Line(ISSUER, Str(<<"-", "9", "0", "0">>))>>,
                  Cursor("m1"))
        ELSE Page(<<Line("B", Str(<<"a", "b", "c">>)), Line("C", Str(<<"-", "5", "0", "0">>))>>, NoCursor)]

\* one page, nothing survives the filter
LedgerNoHolders ==
    [c \in {NoCursor} |->
        Page(<<Line("A", Str(<<"0">>)), Line("B", Str(<<"3", "0", "0">>))>>, NoCursor)]

\* a page whose cursor is the string "undefined", a page whose cursor is the
\* empty string, and the page a request with the empty string would get
LedgerOddCursors ==
    [c \in {NoCursor, Cursor("undefined"), Cursor("")} |->
        CASE c = NoCursor ->
                Page(<<Line("A", Str(<<"-", "5", "0", "0">>))>>, Cursor("undefined"))
          [] c = Cursor("undefined") ->
                Page(<<Line("B", Str(<<"-", "3", "0", "0">>))>>, Cursor(""))
          [] OTHER -> Page(<<Line("C", Str(<<"-", "1", "0", "0">>))>>, NoCursor)]

\* one page of balances as the ledger writes them: a fraction, a leading dot
\* behind a tab, an exponent followed by text, an infinity, a value beyond
\* 2^31 on a known wallet, the issuer in the middle, a negative zero; behind
\* the space U+2000, behind the zero-width space U+200B and behind U+00E9,
\* which are no white space
LedgerNumberForms ==
    [c \in {NoCursor} |->
        Page(<<Line("A", Str(<<"-", "1", "2", ".", "7", "5">>)),
               Line("B", <<9>> \o Str(<<"-", ".", "5">>)),
               Line("C", Str(<<"-", "1", ".", "2", "7", "5", "e", "1", "x">>)),
               Line("D", Str(<<"-", "I", "n", "f", "i", "n", "i", "t", "y">>)),
               Line(BITRUE_HOT, Str(<<"-", "6", "5", "0", "0", "0", "0", "0", "0",
                                      "0", "0", "0", ".", "2", "5">>)),
               Line(ISSUER, Str(<<"-", "1", "2", ".", "5">>)),
               Line("E", Str(<<"-", "0", ".", "0">>)),
               Line("F", <<8192>> \o Str(<<"-", "7">>)),
               Line("G", <<8203>> \o Str(<<"-", "7">>)),
               Line("H", <<233>> \o Str(<<"-", "7">>))>>,
             NoCursor)]

\* one page of balances that are no doubles: two decimals with one nearest
\* double, a decimal whose nearest double is 10000, a tenth, a decimal nearer
\* to zero than to the least double, one beyond the largest double, and the
\* odd integer 2^53 + 1
LedgerRounding ==
    [c \in {NoCursor} |->
        Page(<<Line("A", Str(<<"-", "9", "9", "9", "9", "9", "9", "9", "9", "9",
                               "9", ".", "9", "9", "9", "9", "9", "8">>)),
               Line("B", Str(<<"-", "9", "9", "9", "9", "9", "9", "9", "9", "9",
                               "9", ".", "9", "9", "9", "9", "9", "9">>)),
               Line("C", Str(<<"-", "9", "9", "9", "9", ".", "9", "9", "9", "9",
                               "9", "9", "9", "9", "9", "9", "9", "9", "9", "9",
                               "9", "9">>)),
               Line("D", Str(<<"-", "0", ".", "1">>)),
               Line("E", Str(<<"-", "2", ".", "4", "7", "0", "3", "2", "8", "2",
                               "2", "9", "2", "0", "6", "2", "3", "2", "7", "2",
                               "0", "5", "e", "-", "3", "2", "4">>)),
               Line("F", Str(<<"-", "1", "e", "3", "0", "9">>)),
               Line("G", Str(<<"-", "9", "0", "0", "7", "1", "9", "9", "2", "5",
                               "4", "7", "4", "0", "9", "9", "3">>))>>,
             NoCursor)]

\* one page of balances with exponents of seven digits and more: one far
\* below the least double, one far beyond the largest, and one whose exponent
\* has leading zeros
LedgerExponents ==
    [c \in {NoCursor} |->
        Page(<<Line("A", Str(<<"-", "1", "e", "-", "1", "0", "0", "0", "0", "0",
                               "0">>)),
               Line("B", Str(<<"-", "0", ".", "0", "1", "E", "+", "1", "9", "9",
                               "9", "9", "9", "9", "9", "9", "9", "9">>)),
               Line("C", Str(<<"-", "1", "2", "5", "0", "0", "e", "-", "0", "0",
                               "0", "0", "0", "0", "2">>))>>,
             NoCursor)]

\* two pages that both hold a trust line of the issuer
LedgerIssuerTwice ==
    [c \in {NoCursor, Cursor("m1")} |->
        IF c = NoCursor
        THEN Page(<<Line(ISSUER, Str(<<"-", "9", "0", "0">>)), Line("A", Str(<<"-", "5", "0", "0">>))>>,
                  Cursor("m1"))
        ELSE Page(<<Line(ISSUER, Str(<<"-", "7", "0", "0">>)), Line("B", Str(<<"-", "1", "0", "0">>))>>,
                  NoCursor)]

Ledgers == {LedgerWithIssuer, LedgerNoHolders}

\* the decimal string of n
RECURSIVE DecimalDigits(_)
DecimalDigits(n) ==
    IF n < 10 THEN <<CodeUnit("0") + n>>
    ELSE DecimalDigits(n \div 10) \o <<CodeUnit("0") + (n % 10)>>

DecimalString(n) ==
    IF n < 0 THEN Str(<<"-">>) \o DecimalDigits(0 - n) ELSE DecimalDigits(n)

AggAccounts == {"A", "B", ISSUER}

\* balance strings: a holding, the same holding written with an exponent, a
\* holding below one token, a positive balance, no number
AggBalances ==
    {Str(<<"-", "5", "0", "0">>), Str(<<"-", "5", "e", "2">>), Str(<<"-", "0", ".", "5">>),
     Str(<<"3", "0", "0">>), Str(<<"a", "b", "c">>)}

\* every list of at most MaxRecords trust lines; nothing keeps an account
\* from coming back on a later line (lines are appended page after page)
RecordLists ==
    UNION {[1..n -> [account : AggAccounts, balance : AggBalances]] :
           n \in 0..MaxRecords}

OnePageLedger(lines) == [c \in {NoCursor} |-> Page(lines, NoCursor)]

\* the balances around every tier threshold
TierProbes ==
    {1, 9999, 10000, 49999, 50000, 99999, 100000, 499999, 500000, 999999,
     1000000, 4999999, 5000000, 9999999, 10000000, 24999999, 25000000,
     49999999, 50000000, 99999999, 100000000, 249999999, 250000000,
     499999999, 500000000, 999999999, 1000000000, 2000000000}

\* the probes as whole balances, and half a token above the last balance
\* below each threshold
TierBalances ==
    {DecimalString(0 - a) : a \in TierProbes}
        \cup {DecimalString(0 - a) \o Str(<<".", "5">>) :
                 a \in {b \in TierProbes : b % 10 = 9}}

TierLedgers ==
    {OnePageLedger(<<Line("A", a), Line("B", b)>>) : a, b \in TierBalances}

AggLedgers ==
    {OnePageLedger(l) : l \in RecordLists} \cup TierLedgers
        \cup {LedgerTwoPages, LedgerThreePages, LedgerWithIssuer, LedgerNoHolders,
              LedgerOddCursors, LedgerNumberForms, LedgerRounding,
              LedgerExponents, LedgerIssuerTwice}

\* a totalSupply of 1000 tokens, of 0 tokens, and no snapshot
AggMetrics == {NullMetrics, Snapshot(Number(1000)), Snapshot(Number(0))}

\* what fetchTokenMetrics may deliver: null, or a totalSupply of 1000 tokens
MetricsData == {NullMetrics, Snapshot(Number(1000))}

----------------------------------------------------------------------------
\* Actions

Init ==
    /\ holders = <<>>
    /\ lastUpdated = 0
    /\ fetchStatus = InitialFetchStatus
    /\ metrics = NullMetrics
    /\ excludeIssuer = TRUE
    /\ isLiveUpdate = FALSE
    /\ abortController = NoController
    /\ rendered = Shown
    /\ timers = <<>>
    /\ scans = <<>>
    /\ ledger \in Ledgers
    /\ settingsChanges = 0

\* the "Start Live Scan" button, rendered unless a first scan is running.
\* A startScan that returns at its guard queues no update: nothing is
\* rendered and no effect runs.
StartUpTo(maxScans) ==
    /\ ~rendered.fetchStatus.isFetching \/ Len(rendered.holders) > 0
    /\ IF Closure(rendered).fetchStatus.isFetching
       THEN UNCHANGED vars
       ELSE CommitUpTo(startScan(Closure(rendered), Cur), maxScans)

Start == StartUpTo(MaxScans)

\* a call of stopScan.  Without an AbortController it queues no update:
\* nothing is rendered and no effect runs.
StopCall ==
    IF abortController = NoController
    THEN UNCHANGED vars
    ELSE Commit(stopScan(Cur))

\* the "Abort Scan" button, rendered while a first scan is running
Stop ==
    /\ rendered.fetchStatus.isFetching /\ Len(rendered.holders) = 0
    /\ StopCall

ToggleExcludeIssuer == Commit(toggleExcludeIssuer(Closure(rendered), Cur))

ToggleLiveUpdate == Commit(toggleLiveUpdate(Closure(rendered), Cur))

\* "await fetchTokenMetrics()" of a loadMetrics resolves
LoadMetrics == \E data \in MetricsData : Queue(loadMetrics(Cur, data))

\* the task that renders the queued updates
RenderTask ==
    /\ Shown # rendered
    /\ Commit(Cur)

\* time passes while a timer has time left
Tick ==
    /\ \E k \in 1..Len(timers) : timers[k].remaining > 0
    /\ timers' = [k \in 1..Len(timers) |->
                    [timers[k] EXCEPT !.remaining =
                        IF @ > TickMs THEN @ - TickMs ELSE 0]]
    /\ UNCHANGED <<holders, lastUpdated, fetchStatus, metrics, excludeIssuer,
                   isLiveUpdate, abortController, rendered, scans, ledger,
                   settingsChanges>>

\* a timer fires: the startScan of the render that armed it runs
TimerFire ==
    \E k \in 1..Len(timers) :
        /\ timers[k].remaining = 0
        /\ Queue(startScan(timers[k].startScan,
                           [Cur EXCEPT !.timers = WithoutTimer(@, k)]))

\* a page request of scan i resolves
FetchOk(i) ==
    /\ scans[i].pc = "fetching"
    /\ Queue(scanLoop(Cur, i, ledger[scans[i].marker]))

\* a page request of scan i rejects
FetchFail(i) ==
    /\ scans[i].pc = "fetching"
    /\ Queue(catch(Cur, i, "Network Error"))

Next ==
    \/ Start
    \/ Stop
    \/ ToggleExcludeIssuer
    \/ ToggleLiveUpdate
    \/ LoadMetrics
    \/ RenderTask
    \/ Tick
    \/ TimerFire
    \/ \E i \in 1..Len(scans) : FetchOk(i)
    \/ \E i \in 1..Len(scans) : FetchFail(i)

Spec == Init /\ [][Next]_vars

\* Spec with the scheduling of the browser: a queued render is run, time
\* passes while a timer is pending, and an expired timer runs its callback.
SpecLive ==
    /\ Init /\ [][Next]_vars
    /\ WF_vars(RenderTask) /\ WF_vars(Tick) /\ WF_vars(TimerFire)

----------------------------------------------------------------------------
\* One uninterrupted scan of a fixture, for the claims about the aggregation

InitAgg ==
    /\ holders = <<>>
    /\ lastUpdated = 0
    /\ fetchStatus = InitialFetchStatus
    /\ metrics \in AggMetrics
    /\ excludeIssuer \in BOOLEAN
    /\ isLiveUpdate = FALSE
    /\ abortController = NoController
    /\ rendered = Shown
    /\ timers = <<>>
    /\ scans = <<>>
    /\ ledger \in AggLedgers
    /\ settingsChanges = 0

FirstStart == scans = <<>> /\ Start

NextAgg ==
    \/ FirstStart
    \/ \E i \in 1..Len(scans) : FetchOk(i)

SpecAgg == InitAgg /\ [][NextAgg]_vars

----------------------------------------------------------------------------
\* The two buttons and the page requests alone, with one scan more: scans
\* restarted after a stop, next to the loops that are still suspended

RestartableStart == StartUpTo(MaxScans + 1)

NextRestart ==
    \/ RestartableStart
    \/ Stop
    \/ RenderTask
    \/ \E i \in 1..Len(scans) : FetchOk(i)
    \/ \E i \in 1..Len(scans) : FetchFail(i)

SpecRestart == Init /\ [][NextRestart]_vars

----------------------------------------------------------------------------
\* stopScan called in any state, not only where its button is rendered

NextSurface ==
    \/ Start
    \/ StopCall
    \/ ToggleLiveUpdate
    \/ RenderTask
    \/ Tick
    \/ TimerFire
    \/ \E i \in 1..Len(scans) : FetchOk(i)
    \/ \E i \in 1..Len(scans) : FetchFail(i)

SpecSurface == Init /\ [][NextSurface]_vars

----------------------------------------------------------------------------
\* Vocabulary of the properties

Running(i) == scans[i].pc = "fetching"

\* scan i returns in this step
Ends(i) == scans[i].pc = "fetching" /\ scans'[i].pc = "done"

\* scan i returns from processResults in this step
Completes(i) == Ends(i) /\ lastUpdated' # lastUpdated

\* scan i returns from its catch block in this step
Throws(i) == Ends(i) /\ lastUpdated' = lastUpdated

\* this step starts a scan; the new scan is the last of scans'
StartsScan == Len(scans') = Len(scans) + 1

\* this step is a click on Start whose startScan passes its guard
UserStartsScan ==
    StartsScan /\ StartUpTo(MaxScans + 1) /\ ~rendered.fetchStatus.isFetching

----------------------------------------------------------------------------
\* C1: a scan on which stop() was invoked while it was scanning never
\* replaces the published Holder list and never ends Complete.
C1_StoppedScanNeverPublishes ==
    [][\A i \in 1..Len(scans) :
          (scans[i].stopped /\ Ends(i)) =>
              /\ holders' = holders
              /\ lastUpdated' = lastUpdated
              /\ ~fetchStatus'.complete]_vars

\* C2: at most one scan loop is active, hence at most one page request is
\* outstanding (every active loop is suspended in exactly one request).
C2_AtMostOneScanActive ==
    Cardinality({i \in 1..Len(scans) : Running(i)}) <= 1

\* C3: start() while isFetching is true changes nothing and starts no loop.
C3_StartWhileScanningIsNoOp ==
    [][(fetchStatus.isFetching /\ Start) => UNCHANGED vars]_vars

----------------------------------------------------------------------------
\* What a fixture holds, by the cursors its pages hand out

\* the cursors of the fixture in page order, from cursor c on: a page that
\* returns a cursor, whatever its value, has a next page
RECURSIVE ChainFrom(_)
ChainFrom(c) ==
    IF ~ledger[c].nextMarker.defined THEN <<c>>
    ELSE <<c>> \o ChainFrom(ledger[c].nextMarker)

CursorChain == ChainFrom(NoCursor)

\* the trust lines a scan of fixture L fetches from cursor c on: the loop
\* asks for a next page while the cursor returned is truthy (App.tsx:162)
RECURSIVE LinesFrom(_, _)
LinesFrom(L, c) ==
    IF ~Truthy(L[c].nextMarker) THEN L[c].lines
    ELSE L[c].lines \o LinesFrom(L, L[c].nextMarker)

\* the fetched records: the trust lines of the fixture in fetch order
AllRecords == LinesFrom(ledger, NoCursor)

IsPrefix(p, q) == Len(p) <= Len(q) /\ \A k \in 1..Len(p) : p[k] = q[k]

\* the settings a scan may have captured
AnySettings == BOOLEAN \X (AggMetrics \cup MetricsData)

\* the lists a scan of all pages of a fixture can publish, by fixture (no
\* fixture of Ledgers hands out an empty cursor)
Publishable ==
    [L \in Ledgers |->
        {Processed(HoldersBatch(LinesFrom(L, NoCursor)), st[1], st[2]) :
            st \in AnySettings}]

----------------------------------------------------------------------------
\* C4: the published list is empty or the aggregation of all pages of the
\* fixture; it changes only in a step in which a scan ends successfully, the
\* timestamp is renewed and the state becomes Complete.
C4_ListPublishedWholeAndAtomically ==
    /\ [](holders = <<>> \/ holders \in Publishable[ledger])
    /\ [][(holders' # holders \/ lastUpdated' # lastUpdated) =>
              /\ \E i \in 1..Len(scans) :
                    Completes(i) /\ scans[i].requested = CursorChain
              /\ lastUpdated' = lastUpdated + 1
              /\ fetchStatus'.complete /\ ~fetchStatus'.isFetching]_vars

\* a two-page scan has published its list
C4_Witness ==
    /\ ledger = LedgerWithIssuer
    /\ Len(holders) > 0 /\ lastUpdated > 0 /\ fetchStatus.complete

\* C5: a scan requests the first page without cursor and every later page
\* with the cursor the page before returned; it ends successfully only having
\* requested every page of the fixture once, in order, and requests nothing
\* after the page without continuation cursor.
C5_PagesVisitedInCursorOrder ==
    /\ [](\A i \in 1..Len(scans) : Running(i) =>
                /\ scans[i].requested # <<>>
                /\ scans[i].requested[1] = NoCursor
                /\ IsPrefix(scans[i].requested, CursorChain)
                /\ scans[i].marker = scans[i].requested[Len(scans[i].requested)])
    /\ [][\A i \in 1..Len(scans) :
              /\ Completes(i) =>
                    scans[i].requested = CursorChain
              /\ (Running(i) /\ scans[i].requested = CursorChain) =>
                    \/ Ends(i)
                    \/ Running(i)' /\ scans'[i].requested = scans[i].requested]_vars

----------------------------------------------------------------------------
\* The aggregation, stated from the trust lines of the fixture

\* the double m * 2^q, m odd
Double(m, q) == [nan |-> FALSE, inf |-> FALSE, neg |-> FALSE, mant |-> m, exp |-> q]

PositiveInfinity == [nan |-> FALSE, inf |-> TRUE, neg |-> FALSE, mant |-> <<>>, exp |-> 0]

\* a balance string that is a holding: its place among the balances of the
\* table (a higher place for a higher balance, one place for equal
\* balances), the balance, and the percentage of 1000 tokens and of the
\* fallback supply of 65,000,000,000 tokens
Expected(place, balance, ofThousand, ofFallback) ==
    [holding |-> TRUE, place |-> place, balance |-> balance,
     ofThousand |-> ofThousand, ofFallback |-> ofFallback]

\* a balance string that is no holding
Dropped ==
    [holding |-> FALSE, place |-> 0, balance |-> Double(<<>>, 0),
     ofThousand |-> Double(<<>>, 0), ofFallback |-> Double(<<>>, 0)]

\* Reference values for every balance string of the fixtures, as code
\* units: the values a JavaScript engine gives to the expressions of
\* App.tsx:143-148 and 289,
\*     rawBalance = parseFloat(str)
\*     balance    = rawBalance < 0 ? Math.abs(rawBalance) : 0    (kept if > 0)
\*     (balance / 1000) * 100  and  (balance / 65000000000) * 100,
\* written down as doubles; none of them is computed by this module.
Reference ==
    \* -500
    (<<45, 53, 48, 48>> :>
        Expected(10, Double(<<125>>, 2),
                Double(<<25>>, 1),
                Double(<<28023, 13162, 16017, 206>>, 0 - 73))) @@
    \* 300
    (<<51, 48, 48>> :> Dropped) @@
    \* -100
    (<<45, 49, 48, 48>> :>
        Expected(7, Double(<<25>>, 2),
                Double(<<5>>, 1),
                Double(<<9311, 10530, 6260, 165>>, 0 - 75))) @@
    \* -900
    (<<45, 57, 48, 48>> :>
        Expected(12, Double(<<225>>, 2),
                Double(<<45>>, 1),
                Double(<<18667, 28230, 27522, 185>>, 0 - 72))) @@
    \* -700
    (<<45, 55, 48, 48>> :>
        Expected(11, Double(<<175>>, 2),
                Double(<<35>>, 1),
                Double(<<16373, 14591, 4441, 36>>, 0 - 70))) @@
    \* abc
    (<<97, 98, 99>> :> Dropped) @@
    \* 0
    (<<48>> :> Dropped) @@
    \* -300
    (<<45, 51, 48, 48>> :>
        Expected(9, Double(<<75>>, 2),
                Double(<<15>>, 1),
                Double(<<23367, 7897, 29271, 123>>, 0 - 73))) @@
    \* -5e2
    (<<45, 53, 101, 50>> :>
        Expected(10, Double(<<125>>, 2),
                Double(<<25>>, 1),
                Double(<<28023, 13162, 16017, 206>>, 0 - 73))) @@
    \* -0.5
    (<<45, 48, 46, 53>> :>
        Expected(2, Double(<<1>>, 0 - 1),
                Double(<<19661, 6553, 13107, 102>>, 0 - 56),
                Double(<<31579, 26585, 14566, 211>>, 0 - 83))) @@
    \* -12.75
    (<<45, 49, 50, 46, 55, 53>> :>
        Expected(6, Double(<<51>>, 0 - 2),
                Double(<<13107, 26214, 19660, 81>>, 0 - 51),
                Double(<<22605, 30401, 16215, 168>>, 0 - 78))) @@
    \* \u0009-.5
    (<<9, 45, 46, 53>> :>
        Expected(2, Double(<<1>>, 0 - 1),
                Double(<<19661, 6553, 13107, 102>>, 0 - 56),
                Double(<<31579, 26585, 14566, 211>>, 0 - 83))) @@
    \* -1.275e1x
    (<<45, 49, 46, 50, 55, 53, 101, 49, 120>> :>
        Expected(6, Double(<<51>>, 0 - 2),
                Double(<<13107, 26214, 19660, 81>>, 0 - 51),
                Double(<<22605, 30401, 16215, 168>>, 0 - 78))) @@
    \* -Infinity
    (<<45, 73, 110, 102, 105, 110, 105, 116, 121>> :>
        Expected(56, PositiveInfinity,
                PositiveInfinity,
                PositiveInfinity)) @@
    \* -65000000000.25
    (<<45, 54, 53, 48, 48, 48, 48, 48, 48, 48, 48, 48, 46, 50, 53>> :>
        Expected(54, Double(<<10241, 4714, 242>>, 0 - 2),
                Double(<<13107, 4096, 28100, 96>>, 0 - 19),
                Double(<<13533, 0, 0, 100>>, 0 - 45))) @@
    \* -12.5
    (<<45, 49, 50, 46, 53>> :>
        Expected(5, Double(<<25>>, 0 - 1),
                Double(<<5>>, 0 - 2),
                Double(<<9311, 10530, 6260, 165>>, 0 - 78))) @@
    \* -0.0
    (<<45, 48, 46, 48>> :> Dropped) @@
    \* \u2000-7
    (<<8192, 45, 55>> :>
        Expected(4, Double(<<7>>, 0),
                Double(<<26215, 19660, 6553, 179>>, 0 - 53),
                Double(<<23535, 31454, 457, 185>>, 0 - 79))) @@
    \* \u200b-7
    (<<8203, 45, 55>> :> Dropped) @@
    \* \u00e9-7
    (<<233, 45, 55>> :> Dropped) @@
    \* -9999999999.999998
    (<<45, 57, 57, 57, 57, 57, 57, 57, 57, 57, 57, 46, 57, 57, 57, 57, 57, 56>> :>
        Expected(53, Double(<<32767, 16383, 380, 149>>, 0 - 19),
                Double(<<32767, 32767, 6857, 119>>, 0 - 22),
                Double(<<30247, 20164, 2520, 123>>, 0 - 48))) @@
    \* -9999999999.999999
    (<<45, 57, 57, 57, 57, 57, 57, 57, 57, 57, 57, 46, 57, 57, 57, 57, 57, 57>> :>
        Expected(53, Double(<<32767, 16383, 380, 149>>, 0 - 19),
                Double(<<32767, 32767, 6857, 119>>, 0 - 22),
                Double(<<30247, 20164, 2520, 123>>, 0 - 48))) @@
    \* -9999.9999999999999999
    (<<45, 57, 57, 57, 57, 46, 57, 57, 57, 57, 57, 57, 57, 57, 57, 57, 57, 57, 57, 57, 57, 57>> :>
        Expected(15, Double(<<625>>, 4),
                Double(<<125>>, 3),
                Double(<<12853, 14353, 17293, 64>>, 0 - 67))) @@
    \* -0.1
    (<<45, 48, 46, 49>> :>
        Expected(1, Double(<<19661, 6553, 13107, 102>>, 0 - 55),
                Double(<<5243, 3932, 27525, 163>>, 0 - 59),
                Double(<<19423, 31531, 9466, 42>>, 0 - 83))) @@
    \* -2.4703282292062327205e-324
    (<<45, 50, 46, 52, 55, 48, 51, 50, 56, 50, 50, 57, 50, 48, 54, 50, 51, 50, 55, 50, 48, 53, 101, 45, 51, 50, 52>> :> Dropped) @@
    \* -1e309
    (<<45, 49, 101, 51, 48, 57>> :>
        Expected(56, PositiveInfinity,
                PositiveInfinity,
                PositiveInfinity)) @@
    \* -9007199254740993
    (<<45, 57, 48, 48, 55, 49, 57, 57, 50, 53, 52, 55, 52, 48, 57, 57, 51>> :>
        Expected(55, Double(<<1>>, 53),
                Double(<<19661, 6553, 13107, 102>>, 0 - 2),
                Double(<<31579, 26585, 14566, 211>>, 0 - 29))) @@
    \* -1e-1000000
    (<<45, 49, 101, 45, 49, 48, 48, 48, 48, 48, 48>> :> Dropped) @@
    \* -0.01E+19999999999
    (<<45, 48, 46, 48, 49, 69, 43, 49, 57, 57, 57, 57, 57, 57, 57, 57, 57, 57>> :>
        Expected(56, PositiveInfinity,
                PositiveInfinity,
                PositiveInfinity)) @@
    \* -12500e-0000002
    (<<45, 49, 50, 53, 48, 48, 101, 45, 48, 48, 48, 48, 48, 48, 50>> :>
        Expected(8, Double(<<125>>, 0),
                Double(<<25>>, 0 - 1),
                Double(<<28023, 13162, 16017, 206>>, 0 - 75))) @@
    \* -1
    (<<45, 49>> :>
        Expected(3, Double(<<1>>, 0),
                Double(<<19661, 6553, 13107, 102>>, 0 - 55),
                Double(<<31579, 26585, 14566, 211>>, 0 - 82))) @@
    \* -9999
    (<<45, 57, 57, 57, 57>> :>
        Expected(13, Double(<<9999>>, 0),
                Double(<<19661, 6553, 16179, 62>>, 0 - 41),
                Double(<<19035, 32554, 17081, 64>>, 0 - 67))) @@
    \* -10000
    (<<45, 49, 48, 48, 48, 48>> :>
        Expected(15, Double(<<625>>, 4),
                Double(<<125>>, 3),
                Double(<<12853, 14353, 17293, 64>>, 0 - 67))) @@
    \* -49999
    (<<45, 52, 57, 57, 57, 57>> :>
        Expected(16, Double(<<17231, 1>>, 0),
                Double(<<26215, 19660, 8089, 156>>, 0 - 40),
                Double(<<2455, 28600, 10359, 161>>, 0 - 66))) @@
    \* -50000
    (<<45, 53, 48, 48, 48, 48>> :>
        Expected(18, Double(<<3125>>, 4),
                Double(<<625>>, 3),
                Double(<<15749, 19499, 10465, 161>>, 0 - 66))) @@
    \* -99999
    (<<45, 57, 57, 57, 57, 57>> :>
        Expected(19, Double(<<1695, 3>>, 0),
                Double(<<13107, 26214, 8140, 156>>, 0 - 39),
                Double(<<25487, 24049, 10412, 161>>, 0 - 65))) @@
    \* -100000
    (<<45, 49, 48, 48, 48, 48, 48>> :>
        Expected(21, Double(<<3125>>, 5),
                Double(<<625>>, 4),
                Double(<<15749, 19499, 10465, 161>>, 0 - 65))) @@
    \* -499999
    (<<45, 52, 57, 57, 57, 57, 57>> :>
        Expected(22, Double(<<8479, 15>>, 0),
                Double(<<19661, 6553, 10227, 195>>, 0 - 37),
                Double(<<30313, 25511, 21260, 201>>, 0 - 63))) @@
    \* -500000
    (<<45, 53, 48, 48, 48, 48, 48>> :>
        Expected(24, Double(<<15625>>, 5),
                Double(<<3125>>, 4),
                Double(<<5747, 32667, 27020, 100>>, 0 - 62))) @@
    \* -999999
    (<<45, 57, 57, 57, 57, 57, 57>> :>
        Expected(25, Double(<<16959, 30>>, 0),
                Double(<<26215, 19660, 10233, 195>>, 0 - 36),
                Double(<<18643, 22711, 27017, 100>>, 0 - 61))) @@
    \* -1000000
    (<<45, 49, 48, 48, 48, 48, 48, 48>> :>
        Expected(27, Double(<<15625>>, 6),
                Double(<<3125>>, 5),
                Double(<<5747, 32667, 27020, 100>>, 0 - 61))) @@
    \* -4999999
    (<<45, 52, 57, 57, 57, 57, 57, 57>> :>
        Expected(28, Double(<<19263, 152>>, 0),
                Double(<<6553, 13107, 4606, 244>>, 0 - 34),
                Double(<<4373, 30393, 24701, 15>>, 0 - 56))) @@
    \* -5000000
    (<<45, 53, 48, 48, 48, 48, 48, 48>> :>
        Expected(30, Double(<<12589, 2>>, 6),
                Double(<<15625>>, 5),
                Double(<<4033, 504, 28735, 7>>, 0 - 55))) @@
    \* -9999999
    (<<45, 57, 57, 57, 57, 57, 57, 57>> :>
        Expected(31, Double(<<5759, 305>>, 0),
                Double(<<19661, 6553, 4607, 244>>, 0 - 33),
                Double(<<1207, 21835, 2015, 252>>, 0 - 59))) @@
    \* -10000000
    (<<45, 49, 48, 48, 48, 48, 48, 48, 48>> :>
        Expected(33, Double(<<12589, 2>>, 7),
                Double(<<15625>>, 6),
                Double(<<4033, 504, 28735, 7>>, 0 - 54))) @@
    \* -24999999
    (<<45, 50, 52, 57, 57, 57, 57, 57, 57>> :>
        Expected(34, Double(<<30783, 762>>, 0),
                Double(<<13107, 26214, 19263, 152>>, 0 - 31),
                Double(<<7737, 3316, 17644, 157>>, 0 - 57))) @@
    \* -25000000
    (<<45, 50, 53, 48, 48, 48, 48, 48, 48>> :>
        Expected(36, Double(<<30177, 11>>, 6),
                Double(<<12589, 2>>, 5),
                Double(<<20165, 2520, 12603, 39>>, 0 - 55))) @@
    \* -49999999
    (<<45, 52, 57, 57, 57, 57, 57, 57, 57>> :>
        Expected(37, Double(<<28799, 1525>>, 0),
                Double(<<19661, 31129, 9631, 76>>, 0 - 29),
                Double(<<11431, 6699, 17644, 157>>, 0 - 56))) @@
    \* -50000000
    (<<45, 53, 48, 48, 48, 48, 48, 48, 48>> :>
        Expected(39, Double(<<30177, 11>>, 7),
                Double(<<12589, 2>>, 6),
                Double(<<20165, 2520, 12603, 39>>, 0 - 54))) @@
    \* -99999999
    (<<45, 57, 57, 57, 57, 57, 57, 57, 57>> :>
        Expected(40, Double(<<24831, 3051>>, 0),
                Double(<<19661, 31129, 19263, 152>>, 0 - 29),
                Double(<<29661, 8390, 17644, 157>>, 0 - 55))) @@
    \* -100000000
    (<<45, 49, 48, 48, 48, 48, 48, 48, 48, 48>> :>
        Expected(42, Double(<<30177, 11>>, 8),
                Double(<<12589, 2>>, 7),
                Double(<<20165, 2520, 12603, 39>>, 0 - 53))) @@
    \* -249999999
    (<<45, 50, 52, 57, 57, 57, 57, 57, 57, 57>> :>
        Expected(43, Double(<<12927, 7629>>, 0),
                Double(<<26215, 31948, 24079, 190>>, 0 - 28),
                Double(<<21279, 22262, 15123, 98>>, 0 - 53))) @@
    \* -250000000
    (<<45, 50, 53, 48, 48, 48, 48, 48, 48, 48>> :>
        Expected(45, Double(<<19813, 59>>, 7),
                Double(<<30177, 11>>, 6),
                Double(<<2521, 12603, 30247, 196>>, 0 - 54))) @@
    \* -499999999
    (<<45, 52, 57, 57, 57, 57, 57, 57, 57, 57>> :>
        Expected(46, Double(<<25855, 15258>>, 0),
                Double(<<13107, 32358, 24079, 190>>, 0 - 27),
                Double(<<6155, 12180, 30247, 196>>, 0 - 53))) @@
    \* -500000000
    (<<45, 53, 48, 48, 48, 48, 48, 48, 48, 48>> :>
        Expected(48, Double(<<19813, 59>>, 8),
                Double(<<30177, 11>>, 7),
                Double(<<2521, 12603, 30247, 196>>, 0 - 53))) @@
    \* -999999999
    (<<45, 57, 57, 57, 57, 57, 57, 57, 57, 57>> :>
        Expected(49, Double(<<18943, 30517>>, 0),
                Double(<<6553, 32563, 24079, 190>>, 0 - 26),
                Double(<<26745, 22579, 15123, 98>>, 0 - 51))) @@
    \* -1000000000
    (<<45, 49, 48, 48, 48, 48, 48, 48, 48, 48, 48>> :>
        Expected(51, Double(<<19813, 59>>, 9),
                Double(<<30177, 11>>, 8),
                Double(<<2521, 12603, 30247, 196>>, 0 - 52))) @@
    \* -2000000000
    (<<45, 50, 48, 48, 48, 48, 48, 48, 48, 48, 48>> :>
        Expected(52, Double(<<19813, 59>>, 10),
                Double(<<30177, 11>>, 9),
                Double(<<2521, 12603, 30247, 196>>, 0 - 51))) @@
    \* -9999.5
    (<<45, 57, 57, 57, 57, 46, 53>> :>
        Expected(14, Double(<<19999>>, 0 - 1),
                Double(<<6553, 13107, 32358, 249>>, 0 - 43),
                Double(<<24521, 15219, 2148, 8>>, 0 - 64))) @@
    \* -49999.5
    (<<45, 52, 57, 57, 57, 57, 46, 53>> :>
        Expected(17, Double(<<1695, 3>>, 0 - 1),
                Double(<<13107, 26214, 8140, 156>>, 0 - 40),
                Double(<<25487, 24049, 10412, 161>>, 0 - 66))) @@
    \* -99999.5
    (<<45, 57, 57, 57, 57, 57, 46, 53>> :>
        Expected(20, Double(<<3391, 6>>, 0 - 1),
                Double(<<6553, 13107, 8166, 156>>, 0 - 39),
                Double(<<10309, 19079, 21603, 80>>, 0 - 64))) @@
    \* -499999.5
    (<<45, 52, 57, 57, 57, 57, 57, 46, 53>> :>
        Expected(23, Double(<<16959, 30>>, 0 - 1),
                Double(<<26215, 19660, 10233, 195>>, 0 - 37),
                Double(<<18643, 22711, 27017, 100>>, 0 - 62))) @@
    \* -999999.5
    (<<45, 57, 57, 57, 57, 57, 57, 46, 53>> :>
        Expected(26, Double(<<1151, 61>>, 0 - 1),
                Double(<<13107, 26214, 10236, 195>>, 0 - 36),
                Double(<<24391, 22610, 21270, 201>>, 0 - 62))) @@
    \* -4999999.5
    (<<45, 52, 57, 57, 57, 57, 57, 57, 46, 53>> :>
        Expected(29, Double(<<5759, 305>>, 0 - 1),
                Double(<<19661, 6553, 4607, 244>>, 0 - 34),
                Double(<<1207, 21835, 2015, 252>>, 0 - 60))) @@
    \* -9999999.5
    (<<45, 57, 57, 57, 57, 57, 57, 57, 46, 53>> :>
        Expected(32, Double(<<11519, 610>>, 0 - 1),
                Double(<<13107, 26214, 2303, 122>>, 0 - 32),
                Double(<<15979, 2599, 2016, 252>>, 0 - 59))) @@
    \* -24999999.5
    (<<45, 50, 52, 57, 57, 57, 57, 57, 57, 46, 53>> :>
        Expected(35, Double(<<28799, 1525>>, 0 - 1),
                Double(<<19661, 31129, 9631, 76>>, 0 - 30),
                Double(<<11431, 6699, 17644, 157>>, 0 - 57))) @@
    \* -49999999.5
    (<<45, 52, 57, 57, 57, 57, 57, 57, 57, 46, 53>> :>
        Expected(38, Double(<<24831, 3051>>, 0 - 1),
                Double(<<19661, 31129, 19263, 152>>, 0 - 30),
                Double(<<29661, 8390, 17644, 157>>, 0 - 56))) @@
    \* -99999999.5
    (<<45, 57, 57, 57, 57, 57, 57, 57, 57, 46, 53>> :>
        Expected(41, Double(<<16895, 6103>>, 0 - 1),
                Double(<<26215, 31948, 19263, 152>>, 0 - 29),
                Double(<<19183, 17538, 22685, 19>>, 0 - 52))) @@
    \* -249999999.5
    (<<45, 50, 52, 57, 57, 57, 57, 57, 57, 57, 46, 53>> :>
        Expected(44, Double(<<25855, 15258>>, 0 - 1),
                Double(<<13107, 32358, 24079, 190>>, 0 - 28),
                Double(<<6155, 12180, 30247, 196>>, 0 - 54))) @@
    \* -499999999.5
    (<<45, 52, 57, 57, 57, 57, 57, 57, 57, 57, 46, 53>> :>
        Expected(47, Double(<<18943, 30517>>, 0 - 1),
                Double(<<6553, 32563, 24079, 190>>, 0 - 27),
                Double(<<26745, 22579, 15123, 98>>, 0 - 52))) @@
    \* -999999999.5
    (<<45, 57, 57, 57, 57, 57, 57, 57, 57, 57, 46, 53>> :>
        Expected(50, Double(<<5119, 28267, 1>>, 0 - 1),
                Double(<<19661, 32665, 24079, 190>>, 0 - 26),
                Double(<<11621, 12497, 30247, 196>>, 0 - 52)))

\* the positions of the holdings among the fetched records
HoldingPositions ==
    {k \in 1..Len(AllRecords) : Reference[AllRecords[k].balance].holding}

\* the place of the balance of the record at position k
Place(k) == Reference[AllRecords[k].balance].place

\* the holdings that come before position k in descending order of balance,
\* fetch order among equals
Before(k) ==
    {j \in HoldingPositions :
        Place(j) > Place(k) \/ (Place(j) = Place(k) /\ j < k)}

\* the rank of the holding at position k when nothing is excluded
RankOfAll(k) == Cardinality(Before(k)) + 1

\* the positions of the holdings of the issuer account
IssuerPositions ==
    {k \in HoldingPositions : AllRecords[k].account = ISSUER}

\* the positions of the holdings that are to be published
KeptPositions ==
    IF excludeIssuer THEN HoldingPositions \ IssuerPositions ELSE HoldingPositions

\* the rank of the holding at position k among those to be published
RankOfKept(k) == Cardinality(Before(k) \cap KeptPositions) + 1

\* the holding at position k is published at rank r
PublishedAt(k, r) ==
    /\ r \in 1..Len(holders)
    /\ holders[r].account = AllRecords[k].account
    /\ holders[r].rank = r

\* the entry expected for the holding at position k
ExpectedHolder(k) ==
    [account |-> AllRecords[k].account,
     balance |-> Reference[AllRecords[k].balance].balance,
     percentage |-> IF metrics = Snapshot(Double(<<125>>, 3))
                    THEN Reference[AllRecords[k].balance].ofThousand
                    ELSE Reference[AllRecords[k].balance].ofFallback]

\* account, balance and percentage of the entry published at rank r
PublishedHolder(r) ==
    [account |-> holders[r].account,
     balance |-> holders[r].balance,
     percentage |-> holders[r].percentage]

\* the published list holds one entry for each of the positions, with the
\* expected account, balance and percentage, and no other entry
OnePerRecord(positions) ==
    /\ Len(holders) = Cardinality(positions)
    /\ \A k \in positions :
          Cardinality({r \in 1..Len(holders) : PublishedHolder(r) = ExpectedHolder(k)})
              = Cardinality({j \in positions : ExpectedHolder(j) = ExpectedHolder(k)})

HolderAccounts == {holders[r].account : r \in 1..Len(holders)}

\* the first scan of the fixture has completed
FirstScanComplete == Len(scans) = 1 /\ scans[1].pc = "done" /\ lastUpdated = 1

\* p is balance / supplyBasis * 100 in doubles, for a balance above zero and
\* a finite supplyBasis above zero
IsPercentage(p, balance, supplyBasis) ==
    /\ ~p.nan /\ ~p.neg
    /\ p = TimesHundred(Quotient(balance, supplyBasis))

\* the minimum balances of the tiers above Microbe, lowest first
TierThresholds ==
    <<Number(10000), Number(50000), Number(100000), Number(500000),
      Number(1000000), Number(5000000), Number(10000000), Number(25000000),
      Number(50000000), Number(100000000), Number(250000000),
      Number(500000000), Number(1000000000)>>

TierLadder ==
    <<"Microbe", "Plankton", "Shrimp", "Crab", "Octopus", "Turtle", "Swordfish",
      "Dolphin", "Shark", "Orca", "Whale", "Sperm Whale", "Megalodon", "Kraken">>

\* the position of a tier in the ladder, Microbe = 0
TierIndex(tier) == (CHOOSE k \in 1..Len(TierLadder) : TierLadder[k] = tier) - 1

----------------------------------------------------------------------------
\* C6: the published list is in descending order of balance, entries of equal
\* balance are in fetch order, and the ranks are 1..N.
C6_SortedStableRankedFromOne ==
    /\ \A r \in 1..Len(holders) : holders[r].rank = r
    /\ \A r, q \in 1..Len(holders) : r < q =>
          AtLeast(holders[r].balance, holders[q].balance)
    /\ FirstScanComplete =>
          /\ Len(holders) = Cardinality(KeptPositions)
          /\ \A k \in KeptPositions :
                holders[RankOfKept(k)].account = AllRecords[k].account
          /\ \A j, k \in KeptPositions :
                (j < k /\ holders[RankOfKept(j)].balance = holders[RankOfKept(k)].balance)
                    => RankOfKept(j) < RankOfKept(k)

\* a published list of three entries with a tie, the issuer excluded or not
C6_Witness ==
    /\ Len(holders) >= 3
    /\ \E r \in 1..Len(holders) - 1 : holders[r].balance = holders[r + 1].balance
    /\ \E r \in 1..Len(holders) - 1 : Less(holders[r + 1].balance, holders[r].balance)

\* C7: with excludeIssuer set the published list lacks the entry of the
\* issuer, at most one entry, and every entry ranked behind it moves up by
\* exactly one rank; with excludeIssuer unset every holding is published at
\* its rank.
C7_ExcludeIssuerRemovesOneAndShiftsRanks ==
    FirstScanComplete =>
        /\ Len(holders) = Cardinality(HoldingPositions)
                            - (IF excludeIssuer /\ IssuerPositions # {} THEN 1 ELSE 0)
        /\ excludeIssuer => ISSUER \notin HolderAccounts
        /\ \A k \in KeptPositions :
              PublishedAt(k, RankOfAll(k)
                               - (IF excludeIssuer /\ Before(k) \cap IssuerPositions # {}
                                  THEN 1 ELSE 0))

\* C8: the tier of a published entry is the highest tier of the ladder whose
\* minimum balance the entry's balance reaches (inclusive bounds), so the
\* tier never falls as the balance grows and equal balances share a tier.
C8_TierMonotonicInBalance ==
    /\ \A r \in 1..Len(holders) :
          TierIndex(holders[r].tier) =
              Cardinality({k \in 1..Len(TierThresholds) :
                              AtLeast(holders[r].balance, TierThresholds[k])})
    /\ \A r, q \in 1..Len(holders) :
          AtLeast(holders[r].balance, holders[q].balance) =>
              TierIndex(holders[r].tier) >= TierIndex(holders[q].tier)

\* two entries on either side of a threshold are published in different tiers
C8_Witness ==
    /\ Len(holders) = 2
    /\ holders[1].balance = Number(1000000) /\ holders[1].tier = "Turtle"
    /\ holders[2].balance = Finite(FALSE, <<9, 9, 9, 9, 9, 9, 5>>, 0 - 1)
    /\ holders[2].tier = "Octopus"

\* pages [{A,-500},{B,300}] and [{C,-100}], supplyBasis 1000 tokens, issuer
\* not excluded: [{A, 500, rank 1, 50 %}, {C, 100, rank 2, 10 %}]
TwoPageInstance ==
    (ledger = LedgerTwoPages /\ ~excludeIssuer /\ metrics = Snapshot(Number(1000))) =>
        /\ Len(holders) = 2
        /\ holders[1].account = "A" /\ holders[1].balance = Number(500)
        /\ holders[1].rank = 1
        /\ holders[1].percentage = Number(50)
        /\ holders[2].account = "C" /\ holders[2].balance = Number(100)
        /\ holders[2].rank = 2
        /\ holders[2].percentage = Number(10)

\* C9 as stated: a completed scan publishes exactly one Holder per fetched
\* trust line with a negative balance, with the magnitude as balance and
\* balance / supplyBasis * 100 as percentage, and nothing for the others;
\* and the instance of the spec.
C9_OneHolderPerNegativeBalance ==
    FirstScanComplete => (OnePerRecord(HoldingPositions) /\ TwoPageInstance)

\* C9 amended: ... one Holder per fetched trust line with a negative balance
\* other than the issuer's when excludeIssuer is set; and the instance of
\* the spec.
C9_OneHolderPerNegativeBalanceButIssuer ==
    FirstScanComplete => (OnePerRecord(KeptPositions) /\ TwoPageInstance)

\* the two-page instance has been scanned with supplyBasis 1000 and the
\* issuer not excluded
C9_Witness ==
    /\ FirstScanComplete /\ ledger = LedgerTwoPages
    /\ ~excludeIssuer /\ metrics = Snapshot(Number(1000))

----------------------------------------------------------------------------
\* The live-update scheduler

\* processResults runs in this step: the transition to Complete is queued
BecomesComplete == lastUpdated' # lastUpdated

\* this step renders a transition to Complete that leaves the state Complete
ShowsComplete ==
    /\ rendered'.lastUpdated # rendered.lastUpdated
    /\ rendered'.fetchStatus.complete /\ ~rendered'.fetchStatus.isFetching

\* this step starts a scan from the live-update effect or its timer
SchedulerStartsScan == StartsScan /\ ~UserStartsScan

\* C10: the render of a transition to Complete with live-update enabled
\* leaves the full cooldown to run before the scheduler starts a scan, the
\* scheduler starts a scan in the Complete state only from the expired
\* timer, and the render of live-update disabled cancels the timer.
C10_RescanOnlyAfterCooldown ==
    /\ [][(ShowsComplete /\ rendered'.isLiveUpdate) =>
              (timeout'.pending /\ timeout'.remaining = LiveUpdateDelay)]_vars
    /\ [][(SchedulerStartsScan /\ rendered.fetchStatus.complete) =>
              /\ TimerFire
              /\ rendered.isLiveUpdate
              /\ timeout.pending /\ timeout.remaining = 0]_vars
    /\ [][(rendered.isLiveUpdate /\ ~rendered'.isLiveUpdate) =>
              ~timeout'.pending]_vars
    /\ [](timeout.pending => rendered.isLiveUpdate)

----------------------------------------------------------------------------
\* Progress reporting

\* scan i is running and was started over a non-empty Holder list
Background(i) == Running(i) /\ scans[i].isBackgroundUpdate

\* the holders scan i has accumulated once its pending request has resolved
AccumulatedCount(i) ==
    Len(scans[i].allLines \o HoldersBatch(ledger[scans[i].marker].lines))

\* C11: a background scan starts with the status message that was in place,
\* and neither the message nor the progress count changes while it runs; a
\* scan started over an empty Holder list writes the accumulated holder count
\* with every page it has fetched.
C11_BackgroundScanIsQuiet ==
    /\ [][(StartsScan /\ scans'[Len(scans')].isBackgroundUpdate) =>
              fetchStatus'.statusMessage = fetchStatus.statusMessage]_vars
    /\ [][\A i \in 1..Len(scans) :
              (Background(i) /\ Running(i)') =>
                  /\ fetchStatus'.statusMessage = fetchStatus.statusMessage
                  /\ fetchStatus'.linesFetched = fetchStatus.linesFetched]_vars
    /\ [][\A i \in 1..Len(scans) :
              (Running(i) /\ ~scans[i].isBackgroundUpdate /\ FetchOk(i)
                  /\ Running(i)') =>
                  /\ fetchStatus'.linesFetched = AccumulatedCount(i)
                  /\ fetchStatus'.statusMessage = MsgScanning(AccumulatedCount(i))]_vars

----------------------------------------------------------------------------
\* Cancellation and failure

\* scan i finds the cancellation signal set at the top of its loop
ObservesAbort(i) == FetchOk(i) /\ Throws(i)

\* C12: when a stopped scan has observed the cancellation signal and
\* returned, the scan state is the Aborted state written by stop(): the
\* 'stopped by user' message and no error detail.
C12_CancelledLoopEndsAborted ==
    [][\A i \in 1..Len(scans) :
          (scans[i].stopped /\ ObservesAbort(i)) =>
              /\ fetchStatus'.statusMessage = Msg("Scan stopped by user.")
              /\ fetchStatus'.error = NoError]_vars

\* C13: a failed page request leaves the Errored state (not fetching, not
\* complete, the failure's message as error detail), the Holder list as it
\* was and live-update disabled; the scheduler starts a scan only while
\* live-update is enabled, and only the user enables it.
C13_FetchFailureEndsErrored ==
    /\ [][\A i \in 1..Len(scans) :
              FetchFail(i) =>
                  /\ ~fetchStatus'.isFetching
                  /\ ~fetchStatus'.complete
                  /\ fetchStatus'.statusMessage = Msg("Error during scan.")
                  /\ fetchStatus'.error = "Network Error"
                  /\ holders' = holders
                  /\ ~isLiveUpdate'
                  /\ ~StartsScan]_vars
    /\ [][SchedulerStartsScan => isLiveUpdate']_vars
    /\ [][(~isLiveUpdate /\ isLiveUpdate') => ToggleLiveUpdate]_vars

----------------------------------------------------------------------------
\* The timers of the live-update effect

\* C14: at most one timer is pending; none is pending while live-update is
\* disabled or while isFetching is true; and a step that changes enabled,
\* isFetching, complete or the holder count leaves no timer pending that was
\* armed before it: a timer pending after such a step has the full delay and
\* the startScan of the new state.
C14_TimerOnlyWhileEnabledAndNotScanning ==
    /\ [](Len(timers) <= 1)
    /\ [](timers # <<>> => (isLiveUpdate /\ ~fetchStatus.isFetching))
    /\ [][Deps(Shown)' # Deps(Shown) =>
              \A k \in 1..Len(timers') :
                  /\ timers'[k].remaining = LiveUpdateDelay
                  /\ timers'[k].startScan = Closure(Shown)']_vars

\* the last render showed live-update enabled, no scan in progress and no
\* holders
IdleWithoutHolders ==
    /\ rendered.isLiveUpdate /\ ~rendered.fetchStatus.isFetching
    /\ Len(rendered.holders) = 0

\* a render changes a dependency of the live-update effect, so the effect
\* runs after it
EffectRuns == Deps(rendered)' # Deps(rendered)

\* C15 as stated: whenever a render shows live-update enabled, no scan in
\* progress and an empty Holder list, its effect starts a scan at once, also
\* after a completed scan that produced an empty list; the program never
\* rests in such a state.
C15_StartsAtOnceWithoutHolders ==
    /\ [][(EffectRuns /\ IdleWithoutHolders') =>
              (SchedulerStartsScan /\ fetchStatus'.isFetching)]_vars
    /\ [](~(IdleWithoutHolders /\ Shown = rendered))

\* C15, amended: the scheduler starts a scan at once when a render shows
\* live-update enabled, no scan in progress, an empty Holder list and a scan
\* state that is not Complete; after a completed scan that produced an empty
\* list it arms the cooldown timer instead and starts nothing, and only then
\* does the program rest in such a state.
C15_StartsAtOnceUnlessComplete ==
    /\ [][(EffectRuns /\ IdleWithoutHolders') =>
              IF rendered'.fetchStatus.complete
              THEN /\ ~StartsScan
                   /\ timeout'.pending /\ timeout'.remaining = LiveUpdateDelay
              ELSE /\ SchedulerStartsScan
                   /\ fetchStatus'.isFetching]_vars
    /\ []((IdleWithoutHolders /\ Shown = rendered) =>
              rendered.fetchStatus.complete)

\* the effect of the render that shows live-update enabled and no scan has
\* started the first scan, which is fetching its first page
C15_Witness ==
    /\ rendered.isLiveUpdate /\ ~rendered.fetchStatus.isFetching
    /\ Len(holders) = 0 /\ fetchStatus.isFetching
    /\ Len(scans) = 1 /\ Running(1)

----------------------------------------------------------------------------
\* The settings a scan aggregates with

\* C16: toggleExcludeIssuer flips the flag and starts nothing: the published
\* list and its timestamp, the scan state, the live-update flag, the scans
\* and the cancellation signal are as before, and so is the pending timer,
\* unless the render of the click is also the first to show an update queued
\* before it that makes the live-update effect run.
C16_ToggleExcludeIssuerChangesOnlyFlag ==
    [][ToggleExcludeIssuer =>
          /\ excludeIssuer' = ~excludeIssuer
          /\ UNCHANGED <<holders, lastUpdated, fetchStatus, isLiveUpdate,
                         scans, abortController, metrics>>
          /\ ~EffectRuns => UNCHANGED timeout]_vars

\* the flag was switched off while a list without the issuer was published
\* and the timer armed before the toggle is still pending
C16_Witness ==
    /\ ~excludeIssuer
    /\ Len(holders) > 0 /\ ISSUER \notin HolderAccounts
    /\ timeout.pending /\ timeout.startScan.excludeIssuer

\* C17: a scan aggregates with the value excludeIssuer has when the scan
\* starts, whoever starts it; hence with the new value when it starts after
\* a toggle.
C17_ScanUsesFlagAtItsStart ==
    [][StartsScan => scans'[Len(scans')].excludeIssuer = excludeIssuer]_vars

\* C18: the percentages of a list are computed against the supply basis of
\* the metrics snapshot that is current when the list is aggregated.
C18_SupplyBasisAtAggregation ==
    [][BecomesComplete =>
          \A r \in 1..Len(holders') :
              IsPercentage(holders'[r].percentage, holders'[r].balance,
                           SupplyBasis(metrics))]_vars

----------------------------------------------------------------------------
\* stop()

\* C19: a scan on which stop() was invoked requests no page any more; the
\* request pending at that moment is its last.
C19_StoppedScanRequestsNoPage ==
    [][\A i \in 1..Len(scans) :
          (scans[i].stopped /\ Running(i)') =>
              scans'[i].requested = scans[i].requested]_vars

\* C20: stop() invoked while no scan is in progress leaves the scan state,
\* the Holder list and the live-update flag as they are; invoked while a
\* scan is in progress it raises the cancellation signal, writes the Aborted
\* state with 'Scan stopped by user.' and disables live-update.
C20_StopActsOnlyWhileScanning ==
    [][StopCall =>
          IF fetchStatus.isFetching
          THEN /\ abortController'.aborted
               /\ ~fetchStatus'.isFetching /\ ~fetchStatus'.complete
               /\ fetchStatus'.statusMessage = Msg("Scan stopped by user.")
               /\ ~isLiveUpdate'
          ELSE UNCHANGED <<fetchStatus, holders, isLiveUpdate>>]_vars

----------------------------------------------------------------------------
\* Progress of the live-update scheduler

\* the cooldown is over: the callback of the timer, which calls startScan,
\* is due
TimerExpired == timeout.pending /\ timeout.remaining = 0

\* no invocation of startScan is waiting for a page
NoLoopActive == \A i \in 1..Len(scans) : ~Running(i)

\* C21: whenever live-update is enabled and no scan is in progress (no loop
\* is left that could still change the state), a scan starts, or its start
\* by the expired timer is due, unless live-update is disabled first.
C21_EnabledSchedulerStartsScan ==
    (isLiveUpdate /\ ~fetchStatus.isFetching /\ NoLoopActive)
        ~> (fetchStatus.isFetching \/ TimerExpired \/ ~isLiveUpdate)

----------------------------------------------------------------------------
\* Consistency of the scan state

\* C22: whenever the scan state is Complete, linesFetched is the number of
\* entries of the published Holder list.
C22_CompleteCountsPublishedHolders ==
    fetchStatus.complete => fetchStatus.linesFetched = Len(holders)

\* C23: the scan state encodes one status: it is never complete while
\* fetching and never complete with an error detail, and every scan that
\* starts clears the error detail.
C23_ScanStateEncodesOneStatus ==
    /\ [](~(fetchStatus.complete /\ fetchStatus.isFetching))
    /\ [](~(fetchStatus.complete /\ fetchStatus.error # NoError))
    /\ [][StartsScan => fetchStatus'.error = NoError]_vars

====
